---- MODULE Spec2Model ----
(***************************************************************************)
(* A model of the pixelation engine of src/src/lib/pixelation.ts:          *)
(* convertToPixelArt and the stages it runs inside the image's onload      *)
(* handler, pixelateImageData (block averaging) and reduceColors (colour   *)
(* quantization: simple, k-means, median-cut, octree approximation).       *)
(*                                                                         *)
(* A buffer is a sequence of bytes, four per pixel (R, G, B, A), row-major.*)
(* Index i of the TypeScript code is index i + 1 here.                     *)
(***************************************************************************)
EXTENDS Integers, Sequences, FiniteSets, TLC

----------------------------------------------------------------------------
(* Bounds of the model. *)

\* Largest image width and height.
MaxDim == 3
\* Largest number of pixels of an image (width * height).
MaxPixels == 4
\* Largest options.pixelSize tried (the smallest is -1).
MaxPixelSize == 2
\* Largest small options.colorCount tried (the smallest is -1); 8 and 256 are
\* tried as well.
MaxColorCount == 3
\* How many passes of a block loop that cannot end are followed.
MaxSpin == 2
\* Largest small colorCount the quantizers are tried with on every byte
\* value (63, 64 and 255 are tried as well).
MaxQuantizerColorCount == 9
\* Largest number of pixels of the buffers k-means is tried on by itself.
MaxKMeansPixels == 5
\* Largest number of pixels of the buffers k-means and median-cut are tried
\* on for their palettes.
MaxPalettePixels == 4
\* Longest prompt (in UTF-16 code units) the seed hash is tried on.
MaxPromptLength == 5
\* Largest width and height of the canvas of the fallback.
MaxCanvasDim == 3

(* Program constants. *)

\* options.colorCount < 256 gates the call of reduceColors.
NoReductionThreshold == 256
\* The k-means loop runs for iter = 0 .. 9.
KMeansIterations == 10

\* The RGBA pixels the images are built from.
Pixels == { <<0, 0, 0, 255>>, <<255, 0, 0, 255>>, <<0, 255, 0, 128>> }

Algorithms == {"kmeans", "median-cut", "octree", "simple"}
PixelSizes == (-1) .. MaxPixelSize
ColorCounts == ((-1) .. MaxColorCount) \cup {8, NoReductionThreshold}

\* The colorCount values the quantizers are tried with on every byte value:
\* they cover the steps 256, 181, 147, 128, ... of the simple algorithm and
\* 256, 128 and 64 of the octree approximation.
QuantizerColorCounts == (1 .. MaxQuantizerColorCount) \cup {63, 64, 255}

\* The pixels of the buffers k-means is tried on by itself: colours close
\* enough for an iteration to leave a centroid without any colour.
KMeansPixels ==
    { <<0, 1, 0, 255>>, <<0, 2, 0, 255>>, <<1, 2, 0, 255>>, <<2, 0, 0, 255>>,
      <<2, 1, 0, 255>> }

\* The pixels of the buffers k-means and median-cut are tried on for their
\* palettes: colours that leave a colour as far from one palette entry as
\* from another, buckets of the same range and channels of the same range.
PalettePixels ==
    { <<0, 0, 0, 255>>, <<2, 0, 0, 255>>, <<6, 0, 0, 255>>, <<0, 6, 0, 255>>,
      <<6, 6, 0, 255>> }

\* The (width, height) pairs of the buffers the stages are run on. The
\* empty ones are kept: the stages are defined on them, though a canvas of
\* width or height 0 makes getImageData throw (OnLoadCanvasThrows).
Shapes == { s \in (0 .. MaxDim) \X (0 .. MaxDim) : s[1] * s[2] <= MaxPixels }

\* What getImageData returns for an image of n pixels given as a function
\* from 1..n to Pixels: the bytes of the pixels, one after the other.
ImageBytes(img, n) ==
    [i \in 1 .. 4 * n |-> img[((i - 1) \div 4) + 1][((i - 1) % 4) + 1]] \o << >>

\* A buffer variable that holds no buffer (yet).
NoData == << -1 >>

----------------------------------------------------------------------------
(* Arithmetic of the code. *)

Min(a, b) == IF a < b THEN a ELSE b

\* A variant of MathRound that truncates (Math.floor); C5 fails with it.
MathRound_Floor(num, den) == num \div den

\* Math.round(num / den) for num >= 0 and den > 0: the nearest integer, a
\* half rounded up.
MathRound(num, den) == (2 * num + den) \div (2 * den)

\* A store into a Uint8ClampedArray: the value clamped to 0..255.
ToUint8Clamped(v) == IF v < 0 THEN 0 ELSE IF v > 255 THEN 255 ELSE v

\* An array given entry by entry, with its entries computed once.
ArrayOf(f) == f \o << >>

\* A variant of Uint8ClampedArrayFrom that allocates one zero entry per
\* pixel instead of copying the bytes; C3 fails with it.
Uint8ClampedArrayFrom_PerPixel(buf) == [i \in 1 .. (Len(buf) \div 4) |-> 0] \o << >>

\* new Uint8ClampedArray(data): a new array with the bytes of data.
Uint8ClampedArrayFrom(buf) == buf

\* A variant of NewUint8ClampedArray that hands back the object it was
\* given ("const newData = data"); C11 fails with it.
NewUint8ClampedArray_SameObject(source, fresh) == source

\* The object new Uint8ClampedArray(data) evaluates to: a new one (fresh),
\* not the object it copies (source).
NewUint8ClampedArray(source, fresh) == fresh

\* The sum of a sequence of numbers (Array.prototype.reduce with +).
RECURSIVE SumSeq(_)
SumSeq(s) == IF s = << >> THEN 0 ELSE Head(s) + SumSeq(Tail(s))

----------------------------------------------------------------------------
(* pixelateImageData: one pass of the body of the loops over (y, x). *)

\* A variant of BlockPixelIndexes that leaves x out of pixelIndex
\* ("((y + by) * width + bx) * 4"); C26 fails with it.
BlockPixelIndexes_NoColumnOffset(x, y, w, h, pixelSize) ==
    LET blockWidth == Min(pixelSize, w - x)
        blockHeight == Min(pixelSize, h - y)
        n == IF blockWidth > 0 /\ blockHeight > 0 THEN blockWidth * blockHeight ELSE 0
    IN  ArrayOf([k \in 1 .. n |->
            ((y + ((k - 1) \div blockWidth)) * w + ((k - 1) % blockWidth)) * 4])

\* The pixelIndex values of the block at (x, y), in the order of the loops
\* over by and bx.
BlockPixelIndexes(x, y, w, h, pixelSize) ==
    LET blockWidth == Min(pixelSize, w - x)
        blockHeight == Min(pixelSize, h - y)
        n == IF blockWidth > 0 /\ blockHeight > 0 THEN blockWidth * blockHeight ELSE 0
    IN  ArrayOf([k \in 1 .. n |->
            ((y + ((k - 1) \div blockWidth)) * w + (x + ((k - 1) % blockWidth))) * 4])

\* A variant of BlockAverage whose pixelCount starts at 1; C6 fails with it.
BlockAverage_CountFromOne(buf, idx, c) ==
    MathRound(SumSeq([k \in 1 .. Len(idx) |-> buf[idx[k] + c + 1]]), Len(idx) + 1)

\* The rounded average of channel c (0..3) over the pixels at idx. With no
\* pixel (pixelCount = 0) it is NaN, which is stored nowhere; 0 stands
\* for it.
BlockAverage(buf, idx, c) ==
    IF Len(idx) = 0 THEN 0
    ELSE MathRound(SumSeq([k \in 1 .. Len(idx) |-> buf[idx[k] + c + 1]]), Len(idx))

\* r, g, b, a after "calculate average color".
BlockAverageColor(buf, idx) == ArrayOf([c \in 1 .. 4 |-> BlockAverage(buf, idx, c - 1)])

\* A variant of WriteBlock that writes the first pixel of the block only;
\* C27 fails with it.
WriteBlock_FirstPixelOnly(newBuf, idx, color) ==
    ArrayOf([i \in 1 .. Len(newBuf) |->
        IF Len(idx) > 0 /\ idx[1] = (i - 1) - ((i - 1) % 4)
        THEN ToUint8Clamped(color[((i - 1) % 4) + 1])
        ELSE newBuf[i]])

\* "Apply the average color to all pixels in the block".
WriteBlock(newBuf, idx, color) ==
    ArrayOf([i \in 1 .. Len(newBuf) |->
        IF \E k \in 1 .. Len(idx) : idx[k] = (i - 1) - ((i - 1) % 4)
        THEN ToUint8Clamped(color[((i - 1) % 4) + 1])
        ELSE newBuf[i]])

AverageAndWrite(buf, newBuf, idx) ==
    CHOOSE written \in { WriteBlock(newBuf, idx, color) :
                            color \in { BlockAverageColor(buf, idx) } } : TRUE

\* newData after the body of the loops has run for the block at (x, y):
\* every pixel of the block holds the block's average colour. A block with
\* no pixel (pixelSize <= 0) writes nothing.
PixelateBlock(buf, newBuf, x, y, w, h, pixelSize) ==
    CHOOSE written \in { AverageAndWrite(buf, newBuf, idx) :
                            idx \in { BlockPixelIndexes(x, y, w, h, pixelSize) } } : TRUE

----------------------------------------------------------------------------
(* reduceColors and its four algorithms. A call either returns a buffer or *)
(* throws: [threw |-> "", data |-> buffer] or [threw |-> name of the error,*)
(* data |-> NoData].                                                        *)

Returned(buf) == [threw |-> "", data |-> buf]
Threw(name) == [threw |-> name, data |-> NoData]

\* The number of passes of "for (let i = 0; i < data.length; i += 4)".
NumPixels(buf) == (Len(buf) + 3) \div 4

\* [data[i], data[i + 1], data[i + 2]] of pixel p (p = i / 4).
ColorAt(buf, p) == << buf[4 * p + 1], buf[4 * p + 2], buf[4 * p + 3] >>

\* floor(value / step) * step as the Uint8ClampedArray stores it. step = 0
\* gives NaN (0 / 0, or Infinity * 0), which is stored as 0.
QuantizeChannel(v, step) ==
    IF step = 0 THEN 0 ELSE ToUint8Clamped((v \div step) * step)

\* A variant of QuantizeToStep that floors the alpha byte as well; C2 fails
\* with it.
QuantizeToStep_WithAlpha(buf, step) ==
    ArrayOf([i \in 1 .. Len(buf) |-> QuantizeChannel(buf[i], step)])

\* A buffer with the R, G and B bytes floored to a multiple of step, and the
\* alpha bytes as they are.
QuantizeToStep(buf, step) ==
    LET copy == Uint8ClampedArrayFrom(buf)
    IN  ArrayOf([i \in 1 .. Len(copy) |->
            IF (i - 1) % 4 = 3 THEN copy[i] ELSE QuantizeChannel(buf[i], step)])

\* A variant of SimpleStep that divides by colorCount, not by its square
\* root; C17 fails with it.
SimpleStep_NoSqrt(colorCount) == IF colorCount <= 0 THEN 0 ELSE 256 \div colorCount

\* Math.floor(256 / Math.sqrt(colorCount)): the largest s with
\* s * sqrt(colorCount) <= 256. For colorCount = 0 the step is Infinity and
\* for colorCount < 0 it is NaN: floor(value / step) * step is NaN either
\* way, stored as 0, which is what step 0 gives.
SimpleStep(colorCount) ==
    IF colorCount <= 0 THEN 0
    ELSE CHOOSE s \in 0 .. 256 :
            /\ s * s * colorCount <= 256 * 256
            /\ (s + 1) * (s + 1) * colorCount > 256 * 256

reduceColorsSimple(buf, colorCount) ==
    Returned(QuantizeToStep(buf, SimpleStep(colorCount)))

\* Math.floor(Math.log2(n)) for n >= 1.
RECURSIVE FloorLog2(_)
FloorLog2(n) == IF n < 2 THEN 0 ELSE 1 + FloorLog2(n \div 2)

RECURSIVE Pow2(_)
Pow2(n) == IF n <= 0 THEN 1 ELSE 2 * Pow2(n - 1)

\* A variant of BitsPerChannel that does not divide by 3; C18 fails with it.
BitsPerChannel_NoThird(colorCount) ==
    IF colorCount < 1 THEN 0 ELSE FloorLog2(colorCount)

\* Math.floor(Math.log2(colorCount) / 3) as the shift 1 << bitsPerChannel
\* takes it: -Infinity (colorCount = 0) and NaN (colorCount < 0) shift by 0.
BitsPerChannel(colorCount) ==
    IF colorCount < 1 THEN 0 ELSE FloorLog2(colorCount) \div 3

\* A variant of OctreeStep that shifts by one bit more; C28 fails with it.
OctreeStep_OneBitMore(colorCount) == 256 \div Pow2((BitsPerChannel(colorCount) + 1) % 32)

\* Math.floor(256 / (1 << bitsPerChannel)); the shift count is taken
\* modulo 32.
OctreeStep(colorCount) == 256 \div Pow2(BitsPerChannel(colorCount) % 32)

reduceColorsOctree(buf, colorCount) ==
    Returned(QuantizeToStep(buf, OctreeStep(colorCount)))

\* The distinct colours of the buffer in the order of their first pixel:
\* the keys of the Map the loop over the pixels fills.
RECURSIVE UniqueColors(_, _, _)
UniqueColors(buf, p, acc) ==
    IF p >= NumPixels(buf) THEN acc
    ELSE LET c == ColorAt(buf, p)
         IN  UniqueColors(buf, p + 1,
                 IF \E k \in 1 .. Len(acc) : acc[k] = c THEN acc ELSE Append(acc, c))

\* The number of pixels of colour c.
ColorFrequency(buf, c) ==
    Cardinality({ p \in 0 .. NumPixels(buf) - 1 : ColorAt(buf, p) = c })

\* The square of the distance the code compares (Math.sqrt is increasing
\* and distinct sums of squares up to 3 * 255^2 have distinct roots).
Dist2(a, b) ==
    (a[1] - b[1]) * (a[1] - b[1]) + (a[2] - b[2]) * (a[2] - b[2])
        + (a[3] - b[3]) * (a[3] - b[3])

\* minDist = Infinity.
Infinity == -1

\* A variant of ClosestScan that compares with <=, so that the last of the
\* closest entries is taken; C21 fails with it.
RECURSIVE ClosestScan_LastWins(_, _, _, _, _)
ClosestScan_LastWins(color, palette, i, minDist, closest) ==
    IF i > Len(palette) THEN closest
    ELSE LET dist == Dist2(color, palette[i])
         IN  IF minDist = Infinity \/ dist <= minDist
             THEN ClosestScan_LastWins(color, palette, i + 1, dist, i)
             ELSE ClosestScan_LastWins(color, palette, i + 1, minDist, closest)

\* The scan "if (dist < minDist) { minDist = dist; closest = i }" over the
\* palette from entry i on; the result is the index found (0: the initial
\* value, entry 1 here).
RECURSIVE ClosestScan(_, _, _, _, _)
ClosestScan(color, palette, i, minDist, closest) ==
    IF i > Len(palette) THEN closest
    ELSE LET dist == Dist2(color, palette[i])
         IN  IF minDist = Infinity \/ dist < minDist
             THEN ClosestScan(color, palette, i + 1, dist, i)
             ELSE ClosestScan(color, palette, i + 1, minDist, closest)

ClosestIndex(color, palette) == ClosestScan(color, palette, 1, Infinity, 1)

\* The final loop of k-means and of median-cut: every pixel takes the R, G
\* and B of the closest palette entry and keeps its alpha.
MapToPalette(buf, palette) ==
    LET copy == Uint8ClampedArrayFrom(buf)
    IN  ArrayOf([i \in 1 .. Len(copy) |->
            IF (i - 1) % 4 = 3 THEN copy[i]
            ELSE ToUint8Clamped(
                     palette[ClosestIndex(ColorAt(buf, (i - 1) \div 4), palette)][((i - 1) % 4) + 1])])

\* The rounded unweighted mean of a non-empty cluster of colours.
ClusterMean(cluster) ==
    ArrayOf([ch \in 1 .. 3 |->
        MathRound(SumSeq([k \in 1 .. Len(cluster) |-> cluster[k][ch]]), Len(cluster))])

\* "clusters[closestCentroid].push(color)" for every colour: colorCount
\* clusters, each with its colours in the order of colorArray.
KMeansClusters(colorArray, centroids, colorCount) ==
    ArrayOf([i \in 1 .. colorCount |->
        SelectSeq(colorArray, LAMBDA c : ClosestIndex(c, centroids) = i)])

\* The clusters of each iteration, given the values centroids took.
KMeansClusterHistory(colorArray, history, colorCount) ==
    ArrayOf([iter \in 1 .. Len(history) - 1 |->
        KMeansClusters(colorArray, history[iter], colorCount)])

\* One k-means iteration: every colour joins the cluster of its closest
\* centroid, then every centroid with a non-empty cluster moves to the
\* cluster's mean.
KMeansIterate(colorArray, centroids) ==
    ArrayOf([i \in 1 .. Len(centroids) |->
        LET cluster == SelectSeq(colorArray, LAMBDA c : ClosestIndex(c, centroids) = i)
        IN  IF Len(cluster) > 0 THEN ClusterMean(cluster) ELSE centroids[i]])

\* A variant of KMeansHistory that leaves the loop once an iteration has
\* moved no centroid; C20 fails with it.
RECURSIVE KMeansHistory_UntilConverged(_, _, _)
KMeansHistory_UntilConverged(colorArray, from, iter) ==
    IF iter >= KMeansIterations THEN << >>
    ELSE CHOOSE later \in
            { IF moved = from THEN << moved >>
              ELSE << moved >> \o KMeansHistory_UntilConverged(colorArray, moved, iter + 1) :
                  moved \in { KMeansIterate(colorArray, from) } } : TRUE

\* The value of centroids at the end of each pass of the loop over iter,
\* from pass iter on, when it starts that pass as from.
RECURSIVE KMeansHistory(_, _, _)
KMeansHistory(colorArray, from, iter) ==
    IF iter >= KMeansIterations THEN << >>
    ELSE CHOOSE later \in
            { << moved >> \o KMeansHistory(colorArray, moved, iter + 1) :
                  moved \in { KMeansIterate(colorArray, from) } } : TRUE

\* The centroids after the passes from iter on.
KMeansRefine(colorArray, from, iter) ==
    CHOOSE last \in { history[Len(history)] :
        history \in { << from >> \o KMeansHistory(colorArray, from, iter) } } : TRUE

\* The iterations and the final loop of k-means from the seeds on: the
\* buffer returned, and the values centroids took (after the seeding and
\* after each iteration).
KMeansMap(buf, colorArray, seeds) ==
    CHOOSE run \in
        { [data |-> MapToPalette(buf, history[Len(history)]), centroids |-> history] :
            history \in { << first >> \o KMeansHistory(colors, first, 0) :
                colors \in { colorArray }, first \in { seeds } } } : TRUE

\* What a call of reduceColorsKMeans that returns leaves.
ReturnedKMeans(run) == [threw |-> "", data |-> run.data, centroids |-> run.centroids]

\* A variant of KMeansSeeds that copies colorArray[0] into every centroid;
\* C16 fails with it.
KMeansSeeds_AllFirst(colorArray, colorCount) ==
    LET n == IF colorCount < 0 THEN 0 ELSE Min(colorCount, Len(colorArray))
    IN  ArrayOf([i \in 1 .. n |-> colorArray[1]])

\* "for (i = 0; i < colorCount && i < colorArray.length; i++)
\*      centroids.push([...colorArray[i % colorArray.length]])".
KMeansSeeds(colorArray, colorCount) ==
    LET n == IF colorCount < 0 THEN 0 ELSE Min(colorCount, Len(colorArray))
    IN  ArrayOf([i \in 1 .. n |-> colorArray[((i - 1) % Len(colorArray)) + 1]])

\* A variant of reduceColorsKMeans whose seeding loop runs up to colorCount
\* whatever the number of colours: with no colour, colorArray[i % 0] is
\* undefined and spreading it throws a TypeError. C9 fails with it.
reduceColorsKMeans_SeedsUnguarded(buf, colorCount) ==
    LET colorArray == UniqueColors(buf, 0, << >>)
    IN  IF colorCount >= 1 /\ Len(colorArray) = 0 THEN Threw("TypeError")
        ELSE IF colorCount < 0 THEN Threw("RangeError")
        ELSE IF colorCount = 0 /\ Len(colorArray) > 0 THEN Threw("TypeError")
        ELSE CHOOSE returned \in { ReturnedKMeans(run) :
                 run \in { KMeansMap(buf, colorArray,
                     ArrayOf([i \in 1 .. colorCount |->
                                 colorArray[((i - 1) % Len(colorArray)) + 1]])) } } : TRUE

\* Array(colorCount) throws a RangeError for a negative colorCount, in the
\* first iteration; with colorCount = 0 there is no cluster and no centroid,
\* and the first colour's clusters[0].push(color) throws a TypeError.
reduceColorsKMeans(buf, colorCount) ==
    LET colorArray == UniqueColors(buf, 0, << >>)
    IN  IF colorCount < 0 THEN Threw("RangeError")
        ELSE IF colorCount = 0 /\ Len(colorArray) > 0 THEN Threw("TypeError")
        ELSE CHOOSE returned \in
                 { ReturnedKMeans(run) @@
                       [clusters |-> KMeansClusterHistory(colorArray, run.centroids,
                                                          colorCount)] :
                     run \in { KMeansMap(buf, colorArray,
                                   KMeansSeeds(colorArray, colorCount)) } } : TRUE

----------------------------------------------------------------------------
(* Median cut. A bucket is a sequence of [color, count] entries. *)

\* Array.from(colorMap.values()): the distinct colours, each with the
\* number of its pixels, in the order of their first pixel.
ColorEntries(buf) ==
    LET unique == UniqueColors(buf, 0, << >>)
    IN  ArrayOf([k \in 1 .. Len(unique) |->
            [color |-> unique[k], count |-> ColorFrequency(buf, unique[k])]])

MaxOf(S) == CHOOSE m \in S : \A v \in S : v <= m
MinOf(S) == CHOOSE m \in S : \A v \in S : m <= v

\* Math.max(...values) - Math.min(...values) over channel ch (1..3) of a
\* non-empty bucket.
ChannelRange(bucket, ch) ==
    LET values == { bucket[k].color[ch] : k \in 1 .. Len(bucket) }
    IN  MaxOf(values) - MinOf(values)

\* ranges.indexOf(maxChannelRange): the first channel with the largest range.
WidestChannel(bucket) ==
    LET widest == MaxOf({ ChannelRange(bucket, ch) : ch \in 1 .. 3 })
    IN  CHOOSE ch \in 1 .. 3 :
            /\ ChannelRange(bucket, ch) = widest
            /\ \A other \in 1 .. ch - 1 : ChannelRange(bucket, other) # widest

\* The loop "find bucket with largest range" from bucket i on, with the
\* best found so far: [maxRange, bucketIndex, splitChannel]. Buckets of at
\* most one entry are skipped; a bucket replaces the best only when its
\* range is larger.
RECURSIVE FindSplit(_, _, _)
FindSplit(buckets, i, best) ==
    IF i > Len(buckets) THEN best
    ELSE IF Len(buckets[i]) <= 1 THEN FindSplit(buckets, i + 1, best)
    ELSE LET ch == WidestChannel(buckets[i])
             range == ChannelRange(buckets[i], ch)
         IN  IF range > best.maxRange
             THEN FindSplit(buckets, i + 1,
                      [maxRange |-> range, bucketIndex |-> i, splitChannel |-> ch])
             ELSE FindSplit(buckets, i + 1, best)

\* e put into a sequence sorted by channel ch, after the entries that do
\* not compare greater: Array.prototype.sort is stable.
RECURSIVE InsertByChannel(_, _, _)
InsertByChannel(sorted, e, ch) ==
    IF sorted = << >> THEN << e >>
    ELSE IF sorted[Len(sorted)].color[ch] <= e.color[ch] THEN Append(sorted, e)
    ELSE Append(InsertByChannel(SubSeq(sorted, 1, Len(sorted) - 1), e, ch),
                sorted[Len(sorted)])

\* bucket.sort((a, b) => a.color[ch] - b.color[ch]).
RECURSIVE SortByChannel(_, _)
SortByChannel(bucket, ch) ==
    IF bucket = << >> THEN << >>
    ELSE InsertByChannel(SortByChannel(SubSeq(bucket, 1, Len(bucket) - 1), ch),
                         bucket[Len(bucket)], ch)

\* A variant of SplitAt whose median is rounded up (Math.ceil); C23 fails
\* with it.
SplitAt_UpperMedian(buckets, best) ==
    LET bucket == SortByChannel(buckets[best.bucketIndex], best.splitChannel)
        median == (Len(bucket) + 1) \div 2
    IN  Append([buckets EXCEPT ![best.bucketIndex] = SubSeq(bucket, 1, median)],
               SubSeq(bucket, median + 1, Len(bucket)))

\* One pass of the while loop: the chosen bucket is sorted and replaced by
\* its first floor(n / 2) entries, and the rest is pushed as a new bucket.
SplitAt(buckets, best) ==
    LET bucket == SortByChannel(buckets[best.bucketIndex], best.splitChannel)
        median == Len(bucket) \div 2
    IN  Append([buckets EXCEPT ![best.bucketIndex] = SubSeq(bucket, 1, median)],
               SubSeq(bucket, median + 1, Len(bucket)))

SplitBucket(buckets) ==
    CHOOSE split \in { SplitAt(buckets, best) :
        best \in { FindSplit(buckets, 1,
                       [maxRange |-> 0, bucketIndex |-> 1, splitChannel |-> 1]) } } : TRUE

\* A variant of MedianCutHistory whose loop goes on while the buckets are
\* at most colorCount; C22 fails with it.
RECURSIVE MedianCutHistory_OneMore(_, _)
MedianCutHistory_OneMore(buckets, colorCount) ==
    IF Len(buckets) <= colorCount /\ \E i \in 1 .. Len(buckets) : Len(buckets[i]) > 1
    THEN CHOOSE later \in { << buckets >> \o MedianCutHistory_OneMore(split, colorCount) :
                               split \in { SplitBucket(buckets) } } : TRUE
    ELSE << buckets >>

\* "while (buckets.length < colorCount && buckets.some(b => b.length > 1))":
\* the value of buckets at each test of the loop, from this one on.
RECURSIVE MedianCutHistory(_, _)
MedianCutHistory(buckets, colorCount) ==
    IF Len(buckets) < colorCount /\ \E i \in 1 .. Len(buckets) : Len(buckets[i]) > 1
    THEN CHOOSE later \in { << buckets >> \o MedianCutHistory(split, colorCount) :
                               split \in { SplitBucket(buckets) } } : TRUE
    ELSE << buckets >>

\* The buckets the loop ends with.
MedianCutLoop(buckets, colorCount) ==
    CHOOSE final \in { history[Len(history)] :
        history \in { MedianCutHistory(buckets, colorCount) } } : TRUE

\* A variant of RepresentativeColor that takes the mean of the bucket's
\* distinct colours, whatever their counts; C15 fails with it.
RepresentativeColor_Unweighted(bucket) ==
    IF Len(bucket) = 0 THEN << 0, 0, 0 >>
    ELSE ArrayOf([ch \in 1 .. 3 |->
             MathRound(SumSeq([k \in 1 .. Len(bucket) |-> bucket[k].color[ch]]),
                       Len(bucket))])

\* The representative colour of a bucket: [0, 0, 0] for an empty one, else
\* the rounded mean of its colours weighted by their counts.
RepresentativeColor(bucket) ==
    IF Len(bucket) = 0 THEN << 0, 0, 0 >>
    ELSE LET totalCount == SumSeq([k \in 1 .. Len(bucket) |-> bucket[k].count])
         IN  ArrayOf([ch \in 1 .. 3 |->
                 MathRound(SumSeq([k \in 1 .. Len(bucket) |->
                               bucket[k].color[ch] * bucket[k].count]), totalCount)])

\* "buckets.map(bucket => ...)".
RepresentativeColors(buckets) ==
    ArrayOf([i \in 1 .. Len(buckets) |-> RepresentativeColor(buckets[i])])

\* The loop and the palette of median-cut: the values buckets took and the
\* representative colours of the last.
MedianCutRun(buf, colorCount) ==
    CHOOSE run \in
        { [buckets |-> history,
           representativeColors |-> RepresentativeColors(history[Len(history)])] :
            history \in { MedianCutHistory(colors, colorCount) :
                colors \in { << ColorEntries(buf) >> } } } : TRUE

MedianCutPalette(buf, colorCount) == MedianCutRun(buf, colorCount).representativeColors

reduceColorsMedianCut(buf, colorCount) ==
    CHOOSE returned \in
        { Returned(MapToPalette(buf, run.representativeColors)) @@ run :
            run \in { MedianCutRun(buf, colorCount) } } : TRUE

\* The switch on the algorithm tag; any other tag takes the default.
reduceColors(buf, colorCount, algorithm) ==
    CASE algorithm = "kmeans" -> reduceColorsKMeans(buf, colorCount)
      [] algorithm = "median-cut" -> reduceColorsMedianCut(buf, colorCount)
      [] algorithm = "octree" -> reduceColorsOctree(buf, colorCount)
      [] OTHER -> reduceColorsSimple(buf, colorCount)

\* The second declaration of reduceColors, further down the file: it takes
\* the tag as _algorithm, never reads it, and quantizes as reduceColorsSimple
\* does.
reduceColorsRedeclared(buf, colorCount, algorithm) ==
    Returned(QuantizeToStep(buf, SimpleStep(colorCount)))

\* The file declares reduceColors twice. Which declaration the name is bound
\* to is settled by the build (a script build binds the last, hoisted,
\* declaration); a call may reach either.
Declarations == {"first", "last"}

\* A variant of ShouldReduce that quantizes whatever the colour count; C12
\* fails with it.
ShouldReduce_Always(colorCount) == TRUE

\* "options.colorCount < 256 ? reduceColors(...) : pixelatedData".
ShouldReduce(colorCount) == colorCount < NoReductionThreshold

----------------------------------------------------------------------------
(* convertToPixelArt and applyPixelationEffect. *)

VARIABLES
    entry,          \* the function called: "convertToPixelArt" or
                    \* "applyPixelationEffect" ("" before the call)
    pc,             \* where the call is: "idle", "loading" (the promise is
                    \* returned and the image has not fired an event),
                    \* "pixelate" (onload is inside pixelateImageData),
                    \* "reduce", "encode" (further on in onload), "done"
    width, height,  \* canvas.width, canvas.height: the image's size
    data,           \* imageData.data, the bytes of the image
    options,        \* the PixelationOptions of the call
    y, x,           \* the loop variables of pixelateImageData
    passes,         \* the passes of its loops made so far
    newData,        \* the buffer pixelateImageData fills
    pixelatedData,  \* what pixelateImageData returned
    reducedData,    \* the buffer the handler goes on with
    promise,        \* "none", "pending", "fulfilled" or "rejected"
    result,         \* the PixelationResult the promise is resolved with
    urlLive,        \* the object URL is created and not revoked
    fault,          \* what went wrong, "" when nothing did
    called,         \* the stages called so far, each with the bytes of the
                    \* buffer it was given
    ref,            \* which object each buffer variable refers to (0: none)
    centroids,      \* the values of reduceColorsKMeans's centroids: after the
                    \* seeding and after each iteration
    clusters,       \* the value of its clusters after the assignment of each
                    \* iteration
    buckets,        \* the values of reduceColorsMedianCut's buckets: at each
                    \* test of its while loop
    representativeColors,   \* its representativeColors
    visited,        \* the pixelIndex values of each pass of the body of
                    \* pixelateImageData's loops, in the order of the passes
    events,         \* what the call did to the object URL and the promise, in
                    \* the order it did it
    request,        \* the ImageGenerationRequest of generatePixelArtImage
    gpc,            \* where its call is: "idle", "remote" (it awaits the
                    \* model's answer), "fallback" (generateFallbackPixelArt
                    \* is entered), "paint" (inside the loops of
                    \* createSimplePixelArt), "returned" (the fallback has
                    \* returned to it), "done"
    site,           \* where it called the fallback from: "try" or "catch"
    caught,         \* the message of the error its catch block caught
    fallbacks,      \* what each call of generateFallbackPixelArt returned
    generators,     \* the generators made by seededRandom: the seed, the
                    \* state (current), the states returned and the palette
                    \* indexes drawn, of each
    gx, gy,         \* the loop variables x and y of createSimplePixelArt
    response        \* the ImageGenerationResponse returned

pixelationVars ==
    << entry, pc, width, height, data, options, y, x, passes, newData,
       pixelatedData, reducedData, promise, result, urlLive, fault,
       called, ref, centroids, clusters, buckets, representativeColors,
       visited, events >>

generatorVars ==
    << request, gpc, site, caught, fallbacks, generators, gx, gy, response >>

vars == << pixelationVars, generatorVars >>

Entries == {"convertToPixelArt", "applyPixelationEffect"}

\* The options applyPixelationEffect hands to pixelateImageData.
EffectOptions(pixelSize) ==
    [pixelSize |-> pixelSize, colorCount |-> 256, algorithm |-> "kmeans"]

NoRefs == [data |-> 0, newData |-> 0, pixelatedData |-> 0, reducedData |-> 0]

\* An object that does not exist yet.
FreshRef(r) == 1 + MaxOf({ r[name] : name \in DOMAIN r })

\* The bytes the variable name holds once the object target has been
\* written: the bytes written when it refers to that object.
Stored(r, name, old, target, written) == IF r[name] = target THEN written ELSE old

CallOf(stage, input) == [stage |-> stage, input |-> input]

\* The function the first declaration of reduceColors calls for a tag.
AlgorithmFunction(algorithm) ==
    CASE algorithm = "kmeans" -> "reduceColorsKMeans"
      [] algorithm = "median-cut" -> "reduceColorsMedianCut"
      [] algorithm = "octree" -> "reduceColorsOctree"
      [] OTHER -> "reduceColorsSimple"

\* The calls a call of reduceColors adds, by the declaration it reaches.
ReduceCalls(declaration, algorithm, input) ==
    IF declaration = "first"
    THEN << CallOf("reduceColors", input), CallOf(AlgorithmFunction(algorithm), input) >>
    ELSE << CallOf("reduceColors", input) >>

NoResult == [pending |-> TRUE]
Failure(message) == [success |-> FALSE, error |-> message]
Success(imageData) == [success |-> TRUE, imageData |-> imageData]

NoOptions == [pixelSize |-> 1, colorCount |-> 1, algorithm |-> ""]

\* "error instanceof Error ? error.message : 'Failed to pixelate image'":
\* the errors thrown here are Error objects, named by their message.
ErrorMessage(error) == error

\* What a settled call leaves: the state of the promise and its value.
Settle(value) == [promise |-> "fulfilled", result |-> value]

\* A variant of OnloadCatch that throws the error on instead of resolving;
\* C10 fails with it.
OnloadCatch_Rethrow(error) == [promise |-> "rejected", result |-> NoResult]

\* The catch block of the onload handler.
OnloadCatch(error) == Settle(Failure(ErrorMessage(error)))

\* The catch block around the body of convertToPixelArt: the async
\* function returns the failure, which fulfils its promise.
OuterCatch(error) == Settle(Failure(ErrorMessage(error)))

NoRequest == [apiKeyLength |-> 0, prompt |-> << >>, style |-> "", size |-> << 0, 0 >>]
NoResponse == [pending |-> TRUE]

\* generatePixelArtImage has not been called.
GeneratorIdle ==
    /\ request = NoRequest
    /\ gpc = "idle"
    /\ site = ""
    /\ caught = ""
    /\ fallbacks = << >>
    /\ generators = << >>
    /\ gx = 0
    /\ gy = 0
    /\ response = NoResponse

\* A variant of RevokeAndResolve that resolves the promise first; C29 fails
\* with it.
RevokeAndResolve_ResolveFirst(log) == log \o << "resolve", "revokeObjectURL" >>

\* "URL.revokeObjectURL(imageUrl); resolve({...})": what the handlers do, in
\* this order, on each of their ways out.
RevokeAndResolve(log) == log \o << "revokeObjectURL", "resolve" >>

Init ==
    /\ pc = "idle"
    /\ width = 0
    /\ height = 0
    /\ data = NoData
    /\ options = NoOptions
    /\ y = 0
    /\ x = 0
    /\ passes = 0
    /\ newData = NoData
    /\ pixelatedData = NoData
    /\ reducedData = NoData
    /\ promise = "none"
    /\ result = NoResult
    /\ urlLive = FALSE
    /\ fault = ""
    /\ entry = ""
    /\ called = << >>
    /\ ref = NoRefs
    /\ centroids = << >>
    /\ clusters = << >>
    /\ buckets = << >>
    /\ representativeColors = << >>
    /\ visited = << >>
    /\ events = << >>
    /\ GeneratorIdle

\* convertToPixelArt(imageFile, options), or applyPixelationEffect(imageFile,
\* pixelSize, ...), up to the return of the promise: the object URL is
\* created, the handlers are set and the image starts to load. data is the
\* buffer getImageData will return for the image.
Call ==
    /\ pc = "idle"
    /\ \E function \in Entries, shape \in Shapes, pixelSize \in PixelSizes,
          colorCount \in ColorCounts, algorithm \in Algorithms :
         \E img \in [1 .. shape[1] * shape[2] -> Pixels] :
            /\ entry' = function
            /\ width' = shape[1]
            /\ height' = shape[2]
            /\ data' = ImageBytes(img, shape[1] * shape[2])
            /\ options' = IF function = "convertToPixelArt"
                          THEN [pixelSize |-> pixelSize, colorCount |-> colorCount,
                                algorithm |-> algorithm]
                          ELSE EffectOptions(pixelSize)
    /\ ref' = [ref EXCEPT !.data = FreshRef(ref)]
    /\ urlLive' = TRUE
    /\ promise' = "pending"
    /\ pc' = "loading"
    /\ events' = Append(events, "createObjectURL")
    /\ UNCHANGED << y, x, passes, newData, pixelatedData, reducedData, result, fault,
                    called, centroids, clusters, buckets, representativeColors, visited >>
    /\ UNCHANGED generatorVars

\* convertToPixelArt when URL.createObjectURL throws: the outer catch
\* returns the failure.
CallThrows ==
    /\ pc = "idle"
    /\ entry' \in Entries
    /\ LET settled == OuterCatch("createObjectURL failed")
       IN  /\ promise' = settled.promise
           /\ result' = settled.result
    /\ fault' = "createObjectURL"
    /\ pc' = "done"
    /\ events' = Append(events, "resolve")
    /\ UNCHANGED << width, height, data, options, y, x, passes, newData,
                    pixelatedData, reducedData, urlLive, called, ref, centroids,
                    clusters, buckets, representativeColors, visited >>
    /\ UNCHANGED generatorVars

\* img.onerror.
OnError ==
    /\ pc = "loading"
    /\ urlLive' = FALSE
    /\ LET settled == Settle(Failure("Failed to load image"))
       IN  /\ promise' = settled.promise
           /\ result' = settled.result
    /\ fault' = "load"
    /\ pc' = "done"
    /\ events' = RevokeAndResolve(events)
    /\ UNCHANGED << entry, width, height, data, options, y, x, passes, newData,
                    pixelatedData, reducedData, called, ref, centroids,
                    clusters, buckets, representativeColors, visited >>
    /\ UNCHANGED generatorVars

\* img.onload when canvas.getContext('2d') returns null.
OnLoadNoContext ==
    /\ pc = "loading"
    /\ urlLive' = FALSE
    /\ LET settled == Settle(Failure("Could not get canvas context"))
       IN  /\ promise' = settled.promise
           /\ result' = settled.result
    /\ fault' = "context"
    /\ pc' = "done"
    /\ events' = RevokeAndResolve(events)
    /\ UNCHANGED << entry, width, height, data, options, y, x, passes, newData,
                    pixelatedData, reducedData, called, ref, centroids,
                    clusters, buckets, representativeColors, visited >>
    /\ UNCHANGED generatorVars

\* img.onload when drawImage or getImageData throws: the handler's catch
\* block revokes the URL and resolves with the failure.
OnLoadCanvasThrows ==
    /\ pc = "loading"
    /\ urlLive' = FALSE
    /\ LET settled == OnloadCatch("canvas failed")
       IN  /\ promise' = settled.promise
           /\ result' = settled.result
    /\ fault' = "canvas"
    /\ pc' = "done"
    /\ events' = RevokeAndResolve(events)
    /\ UNCHANGED << entry, width, height, data, options, y, x, passes, newData,
                    pixelatedData, reducedData, called, ref, centroids,
                    clusters, buckets, representativeColors, visited >>
    /\ UNCHANGED generatorVars

\* img.onload up to the first test of pixelateImageData's outer loop: the
\* image is drawn and read, newData is a copy of data, y = 0.
OnLoad ==
    /\ pc = "loading"
    /\ called' = Append(called, CallOf("pixelateImageData", data))
    /\ newData' = Uint8ClampedArrayFrom(data)
    /\ ref' = [ref EXCEPT !.newData = NewUint8ClampedArray(ref.data, FreshRef(ref))]
    /\ y' = 0
    /\ x' = 0
    /\ passes' = 0
    /\ pc' = "pixelate"
    /\ visited' = << >>
    /\ UNCHANGED << entry, width, height, data, options, pixelatedData, reducedData,
                    promise, result, urlLive, fault, centroids, clusters, buckets, representativeColors, events >>
    /\ UNCHANGED generatorVars

\* The loops of pixelateImageData, one pass at a time: the body for the
\* block at (x, y) and x += pixelSize; or, at the end of a row of blocks,
\* y += pixelSize and x = 0; or, at the end of the rows, the return of
\* newData. With pixelSize <= 0 the loops never end: MaxSpin passes of them
\* are followed.
PixelateBody ==
    /\ pc = "pixelate"
    /\ y < height
    /\ x < width
    /\ options.pixelSize >= 1 \/ passes < MaxSpin
    /\ \E written \in { PixelateBlock(data, newData, x, y, width, height,
                                       options.pixelSize) } :
          /\ newData' = written
          /\ data' = Stored(ref, "data", data, ref.newData, written)
    /\ x' = x + options.pixelSize
    /\ passes' = passes + 1
    /\ visited' = Append(visited, BlockPixelIndexes(x, y, width, height,
                                                     options.pixelSize))
    /\ UNCHANGED << entry, pc, width, height, options, y, pixelatedData, reducedData,
                    promise, result, urlLive, fault, called, ref, centroids,
                    clusters, buckets, representativeColors, events >>
    /\ UNCHANGED generatorVars

PixelateNextRow ==
    /\ pc = "pixelate"
    /\ y < height
    /\ ~ (x < width)
    /\ options.pixelSize >= 1 \/ passes < MaxSpin
    /\ y' = y + options.pixelSize
    /\ x' = 0
    /\ passes' = passes + 1
    /\ UNCHANGED << entry, pc, width, height, data, options, newData, pixelatedData,
                    reducedData, promise, result, urlLive, fault, called, ref,
                    centroids, clusters, buckets, representativeColors, visited, events >>
    /\ UNCHANGED generatorVars

PixelateReturn ==
    /\ pc = "pixelate"
    /\ ~ (y < height)
    /\ pixelatedData' = newData
    /\ ref' = [ref EXCEPT !.pixelatedData = ref.newData]
    /\ pc' = "reduce"
    /\ UNCHANGED << entry, width, height, data, options, y, x, passes, newData,
                    reducedData, promise, result, urlLive, fault, called, centroids,
                    clusters, buckets, representativeColors, visited, events >>
    /\ UNCHANGED generatorVars

\* convertToPixelArt: "options.colorCount < 256 ?
\* reduceColors(pixelatedData, ...) : pixelatedData". An error reduceColors
\* throws is caught by the handler; a buffer it returns is a new object.
Reduce ==
    /\ pc = "reduce"
    /\ entry = "convertToPixelArt"
    /\ IF ~ ShouldReduce(options.colorCount)
       THEN /\ reducedData' = pixelatedData
            /\ ref' = [ref EXCEPT !.reducedData = ref.pixelatedData]
            /\ pc' = "encode"
            /\ UNCHANGED << data, newData, pixelatedData, promise, result, urlLive,
                            fault, called, centroids, clusters, buckets, representativeColors, events >>
       ELSE \E declaration \in Declarations :
            \E reduced \in
                { IF declaration = "first"
                  THEN reduceColors(pixelatedData, options.colorCount, options.algorithm)
                  ELSE reduceColorsRedeclared(pixelatedData, options.colorCount,
                                              options.algorithm) },
               target \in { NewUint8ClampedArray(ref.pixelatedData, FreshRef(ref)) } :
              /\ called' = called \o ReduceCalls(declaration, options.algorithm,
                                                 pixelatedData)
              /\ centroids' = IF "centroids" \in DOMAIN reduced
                              THEN reduced.centroids ELSE << >>
              /\ clusters' = IF "clusters" \in DOMAIN reduced
                             THEN reduced.clusters ELSE << >>
              /\ buckets' = IF "buckets" \in DOMAIN reduced
                            THEN reduced.buckets ELSE << >>
              /\ representativeColors' =
                    IF "representativeColors" \in DOMAIN reduced
                    THEN reduced.representativeColors ELSE << >>
              /\ IF reduced.threw # ""
                 THEN /\ urlLive' = FALSE
                      /\ LET settled == OnloadCatch(reduced.threw)
                         IN  /\ promise' = settled.promise
                             /\ result' = settled.result
                      /\ fault' = "quantize"
                      /\ events' = RevokeAndResolve(events)
                      /\ pc' = "done"
                      /\ UNCHANGED << data, newData, pixelatedData, reducedData, ref >>
                 ELSE /\ reducedData' = reduced.data
                      /\ ref' = [ref EXCEPT !.reducedData = target]
                      /\ data' = Stored(ref, "data", data, target, reduced.data)
                      /\ newData' = Stored(ref, "newData", newData, target, reduced.data)
                      /\ pixelatedData' = Stored(ref, "pixelatedData", pixelatedData,
                                                 target, reduced.data)
                      /\ pc' = "encode"
                      /\ UNCHANGED << promise, result, urlLive, fault, events >>
    /\ UNCHANGED << entry, width, height, options, y, x, passes, visited >>
    /\ UNCHANGED generatorVars

\* applyPixelationEffect: the handler goes on with pixelatedData; it never
\* calls reduceColors.
PixelateOnly ==
    /\ pc = "reduce"
    /\ entry = "applyPixelationEffect"
    /\ reducedData' = pixelatedData
    /\ ref' = [ref EXCEPT !.reducedData = ref.pixelatedData]
    /\ pc' = "encode"
    /\ UNCHANGED << entry, width, height, data, options, y, x, passes, newData,
                    pixelatedData, promise, result, urlLive, fault, called, centroids,
                    clusters, buckets, representativeColors, visited, events >>
    /\ UNCHANGED generatorVars

\* The rest of onload: the buffer is put on the canvas and encoded, the URL
\* is revoked and the promise resolved with the PNG (which holds the bytes
\* of reducedData).
Encode ==
    /\ pc = "encode"
    /\ urlLive' = FALSE
    /\ LET settled == Settle(Success(reducedData))
       IN  /\ promise' = settled.promise
           /\ result' = settled.result
    /\ pc' = "done"
    /\ events' = RevokeAndResolve(events)
    /\ UNCHANGED << entry, width, height, data, options, y, x, passes, newData,
                    pixelatedData, reducedData, fault, called, ref, centroids,
                    clusters, buckets, representativeColors, visited >>
    /\ UNCHANGED generatorVars

\* The rest of onload when new ImageData, putImageData or toDataURL throws.
EncodeThrows ==
    /\ pc = "encode"
    /\ urlLive' = FALSE
    /\ LET settled == OnloadCatch("canvas failed")
       IN  /\ promise' = settled.promise
           /\ result' = settled.result
    /\ fault' = "canvas"
    /\ pc' = "done"
    /\ events' = RevokeAndResolve(events)
    /\ UNCHANGED << entry, width, height, data, options, y, x, passes, newData,
                    pixelatedData, reducedData, called, ref, centroids,
                    clusters, buckets, representativeColors, visited >>
    /\ UNCHANGED generatorVars

\* pixelateImageData called once more, with the buffer it returned and the
\* width, height and options of the first call.
PixelateAgain ==
    /\ pc = "reduce"
    /\ Len(called) = 1
    /\ called' = Append(called, CallOf("pixelateImageData", pixelatedData))
    /\ data' = pixelatedData
    /\ newData' = Uint8ClampedArrayFrom(pixelatedData)
    /\ pixelatedData' = NoData
    /\ ref' = [ref EXCEPT !.data = ref.pixelatedData,
                          !.newData = NewUint8ClampedArray(ref.pixelatedData, FreshRef(ref)),
                          !.pixelatedData = 0]
    /\ y' = 0
    /\ x' = 0
    /\ passes' = 0
    /\ visited' = << >>
    /\ pc' = "pixelate"
    /\ UNCHANGED << entry, width, height, options, reducedData, promise, result,
                    urlLive, fault, centroids, clusters, buckets,
                    representativeColors, events >>
    /\ UNCHANGED generatorVars

Next ==
    \/ Call
    \/ CallThrows
    \/ OnError
    \/ OnLoadNoContext
    \/ OnLoadCanvasThrows
    \/ OnLoad
    \/ PixelateBody
    \/ PixelateNextRow
    \/ PixelateReturn
    \/ Reduce
    \/ PixelateOnly
    \/ Encode
    \/ EncodeThrows

Spec == Init /\ [][Next]_vars

\* The block averager by itself, applied to an image and then to what it
\* returned.
AveragerNext ==
    \/ Call
    \/ OnLoad
    \/ PixelateBody
    \/ PixelateNextRow
    \/ PixelateReturn
    \/ PixelateAgain

AveragerSpec == Init /\ [][AveragerNext]_vars

\* The state of a call of convertToPixelArt on an image of one row with
\* the bytes buf, pixelSize = 1, when pixelateImageData has returned.
AtReduce(buf, colorCount, algorithm) ==
    /\ entry = "convertToPixelArt"
    /\ pc = "reduce"
    /\ width = Len(buf) \div 4
    /\ height = 1
    /\ data = buf
    /\ options = [pixelSize |-> 1, colorCount |-> colorCount, algorithm |-> algorithm]
    /\ y = 1
    /\ x = 0
    /\ passes = (Len(buf) \div 4) + 1
    /\ newData = buf
    /\ pixelatedData = buf
    /\ reducedData = NoData
    /\ promise = "pending"
    /\ result = NoResult
    /\ urlLive = TRUE
    /\ fault = ""
    /\ called = << CallOf("pixelateImageData", buf) >>
    /\ ref = [data |-> 1, newData |-> 2, pixelatedData |-> 2, reducedData |-> 0]
    /\ clusters = << >>
    /\ buckets = << >>
    /\ representativeColors = << >>
    /\ centroids = << >>
    /\ visited = [p \in 1 .. Len(buf) \div 4 |-> << 4 * (p - 1) >>] \o << >>
    /\ events = << "createObjectURL" >>
    /\ GeneratorIdle

\* The quantizers by themselves, on more buffers than the images above
\* give: every algorithm on one pixel of every byte value, and k-means on
\* the buffers of up to MaxKMeansPixels pixels of KMeansPixels.
QuantizerInit ==
    \/ \E v \in 0 .. 255, colorCount \in QuantizerColorCounts, algorithm \in Algorithms :
          AtReduce(<< v, 255 - v, v, 255 >>, colorCount, algorithm)
    \/ \E n \in 0 .. MaxKMeansPixels, colorCount \in 1 .. MaxColorCount :
          \E img \in [1 .. n -> KMeansPixels] :
             AtReduce(ImageBytes(img, n), colorCount, "kmeans")

QuantizerSpec == QuantizerInit /\ [][Reduce]_vars

\* k-means and median-cut by themselves, on the buffers of up to
\* MaxPalettePixels pixels of PalettePixels.
PaletteInit ==
    \E n \in 0 .. MaxPalettePixels, colorCount \in 1 .. MaxColorCount,
       algorithm \in {"kmeans", "median-cut"} :
          \E img \in [1 .. n -> PalettePixels] :
             AtReduce(ImageBytes(img, n), colorCount, algorithm)

PaletteSpec == PaletteInit /\ [][Reduce]_vars

\* The onload handler runs on once it has started: the loops of
\* pixelateImageData are not held up.
FairSpec ==
    /\ Spec
    /\ WF_vars(PixelateBody \/ PixelateNextRow \/ PixelateReturn)

----------------------------------------------------------------------------
(* generatePixelArtImage and its canvas fallback: generateFallbackPixelArt, *)
(* createSimplePixelArt, hashString and seededRandom.                       *)

\* "current = (current * 9301 + 49297) % 233280".
LcgMultiplier == 9301
LcgIncrement == 49297
LcgModulus == 233280
\* "request.apiKey.length < 20".
MinApiKeyLength == 20

\* The values of charCodeAt the prompts are made of: 'a' and the largest.
CharCodes == {97, 65535}
Prompts == UNION { [1 .. n -> CharCodes] : n \in 0 .. MaxPromptLength }
\* The [width, height] that "size.split('x').map(Number)" gives.
Sizes == (1 .. MaxCanvasDim) \X (1 .. MaxCanvasDim)
Styles == {"retro", "monochrome"}
\* No key, a key too short and a key long enough.
ApiKeyLengths == {0, MinApiKeyLength - 1, MinApiKeyLength}

KeyRequired == "Valid Gemini API key is required"
NoImageAndNoFallback == "No image data received from Gemini and fallback generation failed"
\* The messages of the errors the remote call is tried with.
RemoteErrors == {"quota exceeded", "fetch failed"}

\* A number of 32 bits, or one up to 2^32, in two halves of 16 bits, so that
\* every value computed on the way stays below 2^31: the number is
\* hi * 2^16 + lo, and an int32 is held by its 32 bits (negative from
\* hi = 2^15 on).
Half == 2 ^ 16
Word(hi, lo) == [hi |-> hi, lo |-> lo]
ToWord(n) == Word(n \div Half, n % Half)
IsNegative(word) == word.hi >= Half \div 2

\* "hash << 5".
ShiftLeft5(word) ==
    LET low == word.lo * 32
    IN  Word((word.hi * 32 + (low \div Half)) % Half, low % Half)

\* a - b and a + char, as the 32 bits "hash & hash" keeps of them.
Subtract(a, b) ==
    LET low == (a.lo - b.lo) + Half
    IN  Word(((a.hi - b.hi) + Half - (IF low < Half THEN 1 ELSE 0)) % Half, low % Half)

AddChar(a, char) ==
    LET low == a.lo + char
    IN  Word((a.hi + (low \div Half)) % Half, low % Half)

\* A variant of HashStep that adds hash where the code subtracts it
\* ("(hash << 5) + hash", hash * 33); C24 fails with it.
HashStep_Times33(hash, char) ==
    LET shifted == ShiftLeft5(hash)
        low == shifted.lo + hash.lo
    IN  AddChar(Word((shifted.hi + hash.hi + (low \div Half)) % Half, low % Half), char)

\* "hash = ((hash << 5) - hash) + char; hash = hash & hash".
HashStep(hash, char) == AddChar(Subtract(ShiftLeft5(hash), hash), char)

\* The loop of hashString from character i on.
RECURSIVE HashLoop(_, _, _)
HashLoop(str, i, hash) ==
    IF i > Len(str) THEN hash ELSE HashLoop(str, i + 1, HashStep(hash, str[i]))

\* Math.abs of an int32: a number in 0 .. 2^31.
MathAbs(word) ==
    IF ~ IsNegative(word) THEN word
    ELSE Word((Half - word.hi - (IF word.lo = 0 THEN 0 ELSE 1)) % Half,
              (Half - word.lo) % Half)

hashString(str) == MathAbs(HashLoop(str, 1, Word(0, 0)))

\* A variant of seededRandom that keeps one state for all generators: a
\* generator made after another goes on from that one's state; C25 fails
\* with it.
seededRandom_SharedState(seed, made) ==
    IF made = << >> THEN seed ELSE made[Len(made)].current

\* "let current = seed": the state of a new generator, whatever generators
\* were made before.
seededRandom(seed, made) == seed

\* "(current * 9301 + 49297) % 233280" for current >= 0. The products are
\* exact in the code; here current is first taken modulo 233280 and the
\* product is made in two parts, which gives the same number.
RandomNext(current) ==
    LET m == ((((current.hi % LcgModulus) * 256) % LcgModulus) * 256 + current.lo)
                 % LcgModulus
    IN  (((m * (LcgMultiplier - 301)) % LcgModulus) + m * 301 + LcgIncrement) % LcgModulus

\* "random() > 0.7" for random() = state / 233280.
AboveThreshold(state) == state * 10 > 7 * LcgModulus

\* "Math.floor(random() * colors.length)" for random() = state / 233280.
ColorIndex(state, paletteLength) == (state * paletteLength) \div LcgModulus

\* colors.length: palettes.monochrome has 6 colours, the others 8; a style
\* that names no palette takes palettes.retro.
PaletteLength(style) == IF style = "monochrome" THEN 6 ELSE 8

\* "Math.max(2, Math.floor(width / 32))".
FallbackPixelSize(canvasWidth) == IF canvasWidth \div 32 > 2 THEN canvasWidth \div 32 ELSE 2

NewGenerator(seed, made) ==
    [seed |-> seed, current |-> seededRandom(seed, made), returned |-> << >>,
     picks |-> << >>]

\* One call of random(): the new state, which is also what it returns (as
\* the numerator of state / 233280).
RandomCall(generator) ==
    CHOOSE after \in { [generator EXCEPT !.current = ToWord(state),
                                        !.returned = Append(@, state)] :
                          state \in { RandomNext(generator.current) } } : TRUE

\* The body of the loops of createSimplePixelArt: one call of random(),
\* and a second one for the colour when the first is above 0.7.
PaintWith(generator, paletteLength) ==
    LET once == RandomCall(generator)
        twice == RandomCall(once)
    IN  IF AboveThreshold(once.returned[Len(once.returned)])
        THEN [twice EXCEPT !.picks = Append(@,
                 [state |-> twice.returned[Len(twice.returned)],
                  colorIndex |-> ColorIndex(twice.returned[Len(twice.returned)],
                                            paletteLength)])]
        ELSE once

FallbackSucceeded == [success |-> TRUE, imageData |-> "canvas.toDataURL"]
FallbackFailed == [success |-> FALSE, error |-> "Fallback generation failed"]

\* error.message.includes(word), for the messages and the words of the
\* catch block.
Includes(message, word) ==
    \/ message = KeyRequired /\ word = "API key"
    \/ message = "quota exceeded" /\ word = "quota"

\* The errorMessage of the catch block of generatePixelArtImage.
ErrorMessageFor(message) ==
    IF Includes(message, "API key") THEN "Invalid API key. Please check your Gemini API key."
    ELSE IF Includes(message, "quota") THEN "API quota exceeded. Please try again later."
    ELSE IF Includes(message, "safety")
    THEN "Content was blocked by safety filters. Please try a different prompt."
    ELSE IF Includes(message, "model")
    THEN "Image generation model not available. Please try again later."
    ELSE message

\* A variant of AfterFallback whose catch block returns its error whatever
\* the fallback returned; C30 fails with it.
AfterFallback_ErrorAnyway(from, fallbackResult, message) ==
    IF from = "try" /\ fallbackResult.success
    THEN [gpc |-> "done", site |-> from, caught |-> message, response |-> fallbackResult]
    ELSE IF from = "try"
    THEN [gpc |-> "fallback", site |-> "catch", caught |-> NoImageAndNoFallback,
          response |-> NoResponse]
    ELSE [gpc |-> "done", site |-> from, caught |-> message,
          response |-> [success |-> FALSE, error |-> ErrorMessageFor(message)]]

\* What generatePixelArtImage does with what the fallback returned: a
\* success is returned as it is; a failure in the try block throws, which
\* takes the call to the catch block and to a second fallback; a failure in
\* the catch block makes it return the error.
AfterFallback(from, fallbackResult, message) ==
    IF fallbackResult.success
    THEN [gpc |-> "done", site |-> from, caught |-> message, response |-> fallbackResult]
    ELSE IF from = "try"
    THEN [gpc |-> "fallback", site |-> "catch", caught |-> NoImageAndNoFallback,
          response |-> NoResponse]
    ELSE [gpc |-> "done", site |-> from, caught |-> message,
          response |-> [success |-> FALSE, error |-> ErrorMessageFor(message)]]

\* generatePixelArtImage(request) up to its first await: a key that is
\* missing or too short throws, which takes the call to the catch block and
\* the fallback.
Generate ==
    /\ gpc = "idle"
    /\ \E apiKeyLength \in ApiKeyLengths, prompt \in Prompts, style \in Styles,
          size \in Sizes :
          /\ request' = [apiKeyLength |-> apiKeyLength, prompt |-> prompt,
                         style |-> style, size |-> size]
          /\ IF apiKeyLength < MinApiKeyLength
             THEN /\ caught' = KeyRequired
                  /\ site' = "catch"
                  /\ gpc' = "fallback"
             ELSE /\ gpc' = "remote"
                  /\ UNCHANGED << caught, site >>
    /\ UNCHANGED << fallbacks, generators, gx, gy, response >>
    /\ UNCHANGED pixelationVars

\* model.generateContent or result.response rejects.
RemoteThrows ==
    /\ gpc = "remote"
    /\ caught' \in RemoteErrors
    /\ site' = "catch"
    /\ gpc' = "fallback"
    /\ UNCHANGED << request, fallbacks, generators, gx, gy, response >>
    /\ UNCHANGED pixelationVars

\* The response holds an image: it is returned.
RemoteImage ==
    /\ gpc = "remote"
    /\ response' = [success |-> TRUE, imageData |-> "data:image/png;base64"]
    /\ gpc' = "done"
    /\ UNCHANGED << request, site, caught, fallbacks, generators, gx, gy >>
    /\ UNCHANGED pixelationVars

\* extractImageFromResponse returns null: the fallback is called from the
\* try block.
RemoteNoImage ==
    /\ gpc = "remote"
    /\ site' = "try"
    /\ gpc' = "fallback"
    /\ UNCHANGED << request, caught, fallbacks, generators, gx, gy, response >>
    /\ UNCHANGED pixelationVars

\* generateFallbackPixelArt when getContext('2d') returns null: 'Canvas not
\* supported' is thrown and caught, and the failure returned.
FallbackNoContext ==
    /\ gpc = "fallback"
    /\ fallbacks' = Append(fallbacks, FallbackFailed)
    /\ gpc' = "returned"
    /\ UNCHANGED << request, site, caught, generators, gx, gy, response >>
    /\ UNCHANGED pixelationVars

\* generateFallbackPixelArt up to the first test of the loops of
\* createSimplePixelArt: the seed is the hash of the prompt and a generator
\* is made of it.
FallbackPaint ==
    /\ gpc = "fallback"
    /\ generators' = Append(generators, NewGenerator(hashString(request.prompt), generators))
    /\ gx' = 0
    /\ gy' = 0
    /\ gpc' = "paint"
    /\ UNCHANGED << request, site, caught, fallbacks, response >>
    /\ UNCHANGED pixelationVars

\* The loops "for (x ...) for (y ...)" of createSimplePixelArt, one pass at
\* a time.
PaintCell ==
    /\ gpc = "paint"
    /\ gx < request.size[1]
    /\ gy < request.size[2]
    /\ generators' = [generators EXCEPT ![Len(generators)] =
                          PaintWith(@, PaletteLength(request.style))]
    /\ gy' = gy + FallbackPixelSize(request.size[1])
    /\ UNCHANGED << request, gpc, site, caught, fallbacks, gx, response >>
    /\ UNCHANGED pixelationVars

PaintNextColumn ==
    /\ gpc = "paint"
    /\ gx < request.size[1]
    /\ ~ (gy < request.size[2])
    /\ gx' = gx + FallbackPixelSize(request.size[1])
    /\ gy' = 0
    /\ UNCHANGED << request, gpc, site, caught, fallbacks, generators, response >>
    /\ UNCHANGED pixelationVars

\* The rest of generateFallbackPixelArt: the drawing is encoded and the
\* success returned.
FallbackEncode ==
    /\ gpc = "paint"
    /\ ~ (gx < request.size[1])
    /\ fallbacks' = Append(fallbacks, FallbackSucceeded)
    /\ gpc' = "returned"
    /\ UNCHANGED << request, site, caught, generators, gx, gy, response >>
    /\ UNCHANGED pixelationVars

\* The rest of generateFallbackPixelArt when the canvas throws (toDataURL,
\* or a drawing call): the failure is returned.
FallbackEncodeThrows ==
    /\ gpc = "paint"
    /\ ~ (gx < request.size[1])
    /\ fallbacks' = Append(fallbacks, FallbackFailed)
    /\ gpc' = "returned"
    /\ UNCHANGED << request, site, caught, generators, gx, gy, response >>
    /\ UNCHANGED pixelationVars

\* generatePixelArtImage goes on after "await generateFallbackPixelArt".
FallbackReturned ==
    /\ gpc = "returned"
    /\ LET after == AfterFallback(site, fallbacks[Len(fallbacks)], caught)
       IN  /\ gpc' = after.gpc
           /\ site' = after.site
           /\ caught' = after.caught
           /\ response' = after.response
    /\ UNCHANGED << request, fallbacks, generators, gx, gy >>
    /\ UNCHANGED pixelationVars

GeneratorNext ==
    \/ Generate
    \/ RemoteThrows
    \/ RemoteImage
    \/ RemoteNoImage
    \/ FallbackNoContext
    \/ FallbackPaint
    \/ PaintCell
    \/ PaintNextColumn
    \/ FallbackEncode
    \/ FallbackEncodeThrows
    \/ FallbackReturned

GeneratorSpec == Init /\ [][GeneratorNext]_vars

----------------------------------------------------------------------------
(* The stages as the properties below see them. *)

\* pixelateImageData has returned its buffer.
PixelateReturned == pixelatedData # NoData

\* The stage has been called.
Ran(stage) == \E i \in 1 .. Len(called) : called[i].stage = stage

\* The bytes of the buffer the stage was called with.
InputOf(stage) == called[CHOOSE i \in 1 .. Len(called) : called[i].stage = stage].input

\* reduceColors has been called.
ReduceCalled == Ran("reduceColors")

\* reduceColors has returned its buffer.
ReduceReturned == ReduceCalled /\ reducedData # NoData

\* The distinct (R, G, B) triples of a buffer.
ColorSet(buf) == { ColorAt(buf, p) : p \in 0 .. (Len(buf) \div 4) - 1 }

\* The alpha bytes of a buffer, pixel by pixel.
AlphaBytes(buf) == [p \in 1 .. (Len(buf) \div 4) |-> buf[4 * p]]

\* The sum of the function f over the finite set S.
RECURSIVE SumOver(_, _)
SumOver(S, f) ==
    IF S = {} THEN 0
    ELSE LET e == CHOOSE e \in S : TRUE IN f[e] + SumOver(S \ {e}, f)

----------------------------------------------------------------------------
(* C1. Palette bound: when reduceColors is called with a colorCount K,      *)
(* 1 <= K < the number of distinct RGB triples of its input, the buffer it *)
(* returns holds at most K distinct RGB triples, whatever the algorithm.   *)
(* The default (simple) algorithm breaks it: with K = 2 its step is 181    *)
(* and three colours stay apart.                                           *)
C1_PaletteBound ==
    (/\ ReduceReturned
     /\ options.colorCount >= 1
     /\ options.colorCount < Cardinality(ColorSet(pixelatedData)))
        => Cardinality(ColorSet(reducedData)) <= options.colorCount

\* The bound does hold of k-means, median-cut and the octree approximation.
PaletteBoundOfTaggedAlgorithms ==
    (Ran("reduceColorsKMeans") \/ Ran("reduceColorsMedianCut") \/ Ran("reduceColorsOctree"))
        => C1_PaletteBound

(* C2. Alpha pass-through: the buffer reduceColors returns has, at every   *)
(* pixel, the alpha byte of its input, whatever the algorithm.             *)
C2_AlphaPassThrough ==
    ReduceReturned =>
        /\ Len(reducedData) = Len(pixelatedData)
        /\ AlphaBytes(reducedData) = AlphaBytes(pixelatedData)

\* reduceColors changed colours of a buffer whose pixels differ in alpha.
C2_Witness ==
    /\ ReduceReturned
    /\ reducedData # pixelatedData
    /\ \E p, q \in 1 .. (Len(pixelatedData) \div 4) :
          AlphaBytes(pixelatedData)[p] # AlphaBytes(pixelatedData)[q]

(* C3. Dimension preservation: with pixelSize >= 1 the buffer              *)
(* pixelateImageData returns has the length of its input, width * height * *)
(* 4, and with colorCount >= 1 the buffer reduceColors returns has the     *)
(* length of its input.                                                    *)
C3_DimensionPreservation ==
    /\ (PixelateReturned /\ options.pixelSize >= 1) =>
            /\ Len(data) = width * height * 4
            /\ Len(pixelatedData) = Len(data)
    /\ (ReduceReturned /\ options.colorCount >= 1) =>
            Len(reducedData) = Len(pixelatedData)

\* Both stages have returned for an image of several pixels and blocks of
\* several pixels.
C3_Witness ==
    /\ ReduceReturned
    /\ options.pixelSize >= 2
    /\ options.colorCount >= 1
    /\ Len(data) >= 8

\* The cells of the block of the pixel (px, py): its corner is the pixel's
\* position floored to multiples of pixelSize, and it is clipped to the image.
BlockCells(px, py) ==
    LET S == options.pixelSize
        x0 == (px \div S) * S
        y0 == (py \div S) * S
    IN  (x0 .. x0 + Min(S, width - x0) - 1) \X (y0 .. y0 + Min(S, height - y0) - 1)

\* v is the mean of channel c of the input over cells, rounded to the
\* nearest integer with a half rounded up.
IsHalfUpMean(v, cells, c) ==
    LET byteAt == [cell \in cells |-> data[(cell[2] * width + cell[1]) * 4 + c + 1]]
        sum == SumOver(cells, byteAt)
        n == Cardinality(cells)
    IN  /\ 2 * n * v <= 2 * sum + n
        /\ 2 * sum + n < 2 * n * (v + 1)

(* C5. Block averaging result: with pixelSize S >= 1, every byte of every  *)
(* pixel of the buffer pixelateImageData returns is the mean, rounded to   *)
(* the nearest integer with a half rounded up, of that channel over the    *)
(* input pixels of the pixel's block: the block whose corner (x0, y0) is   *)
(* the pixel's position floored to multiples of S, clipped to the image.   *)
C5_BlockAverage ==
    (PixelateReturned /\ options.pixelSize >= 1) =>
        \A px \in 0 .. width - 1, py \in 0 .. height - 1, c \in 0 .. 3 :
            IsHalfUpMean(pixelatedData[(py * width + px) * 4 + c + 1], BlockCells(px, py), c)

\* pixelateImageData has returned for an image with a clipped block and
\* with a block whose mean of a channel is an exact half.
C5_Witness ==
    /\ PixelateReturned
    /\ options.pixelSize = 2
    /\ width = 3
    /\ \E px \in 0 .. width - 1, py \in 0 .. height - 1, c \in 0 .. 3 :
          LET cells == BlockCells(px, py)
              byteAt == [cell \in cells |-> data[(cell[2] * width + cell[1]) * 4 + c + 1]]
          IN  (2 * SumOver(cells, byteAt)) % (2 * Cardinality(cells)) = Cardinality(cells)

(* C6. With pixelSize = 1 the buffer pixelateImageData returns equals its  *)
(* input byte for byte.                                                    *)
C6_BlockSizeOneIdentity ==
    (PixelateReturned /\ options.pixelSize = 1) => pixelatedData = data

\* pixelateImageData has returned with pixelSize = 1 for an image of
\* several colours.
C6_Witness ==
    /\ PixelateReturned
    /\ options.pixelSize = 1
    /\ Cardinality(ColorSet(data)) >= 2

(* C7. pixelateImageData called with pixelSize <= 0 fails with an error:  *)
(* it makes no pass of its loops and returns no buffer, and a call of      *)
(* convertToPixelArt that has ended has ended in a failure. The code does  *)
(* not check pixelSize: with height > 0 the loops make pass after pass     *)
(* without end, and with height = 0 the copy of the input is returned.     *)
C7_NonPositiveBlockSizeFails ==
    options.pixelSize <= 0 =>
        /\ passes = 0
        /\ ~ PixelateReturned
        /\ pc = "done" => result.success = FALSE

(* C8. reduceColors called with colorCount <= 0 fails with an error for    *)
(* every algorithm tag: it returns no buffer and the call of               *)
(* convertToPixelArt ends in a failure. Only k-means throws (and not for   *)
(* colorCount = 0 on an empty buffer); the other algorithms return a       *)
(* buffer.                                                                 *)
C8_NonPositiveColorCountFails ==
    (ReduceCalled /\ options.colorCount <= 0) =>
        /\ reducedData = NoData
        /\ fault = "quantize"
        /\ result.success = FALSE

\* For an image of no pixel and positive options, the buffers the stages
\* have returned are empty and reduceColors has not thrown.
EmptyInputNoError ==
    (data = << >> /\ options.pixelSize >= 1 /\ options.colorCount >= 1) =>
        /\ PixelateReturned => pixelatedData = << >>
        /\ ReduceCalled => reducedData = << >>
        /\ fault # "quantize"

(* C9. Empty input is not an error: for an image of no pixel, with         *)
(* pixelSize >= 1 pixelateImageData returns an empty buffer, and with      *)
(* colorCount >= 1 every algorithm of reduceColors returns an empty buffer *)
(* and throws nothing; the loops of pixelateImageData come to their end    *)
(* and it returns.                                                         *)
C9_EmptyInput ==
    /\ [] EmptyInputNoError
    /\ (data = << >> /\ options.pixelSize >= 1 /\ pc = "pixelate")
          ~> (pc = "reduce" /\ pixelatedData = << >>)

\* Every stage has returned for an empty image of positive height, whose
\* rows the outer loop of pixelateImageData has to pass.
C9_Witness ==
    /\ data = << >>
    /\ height >= 2
    /\ options.pixelSize >= 1
    /\ options.colorCount >= 1
    /\ options.algorithm = "kmeans"
    /\ ReduceReturned
    /\ reducedData = << >>

(* C10. Failures are returned as a tagged result: the promise of           *)
(* convertToPixelArt is never rejected; whenever createObjectURL throws,   *)
(* the image fails to load, the canvas has no context, or the canvas,      *)
(* pixelateImageData or reduceColors throws, the promise is fulfilled with *)
(* success = false, an error message and no imageData; and a result with   *)
(* success = true carries imageData and no error.                          *)
C10_TaggedResult ==
    /\ promise # "rejected"
    /\ pc = "done" => promise = "fulfilled"
    /\ fault # "" =>
          /\ pc = "done"
          /\ promise = "fulfilled"
          /\ result.success = FALSE
          /\ DOMAIN result = {"success", "error"}
          /\ result.error # ""
    /\ (promise = "fulfilled" /\ result.success) =>
          /\ DOMAIN result = {"success", "imageData"}
          /\ fault = ""

\* reduceColors threw inside the onload handler and the call is done.
C10_Witness ==
    /\ pc = "done"
    /\ fault = "quantize"
    /\ promise = "fulfilled"

(* C11. No stage mutates its input: once pixelateImageData or reduceColors *)
(* has been called, and after it has returned, the buffer it was given     *)
(* holds the bytes it held at the call, and the buffer it returns is an    *)
(* object that did not exist before the call.                              *)
C11_NoStageMutatesInput ==
    /\ Ran("pixelateImageData") => data = InputOf("pixelateImageData")
    /\ PixelateReturned => ref.pixelatedData \notin {0, ref.data}
    /\ ReduceCalled => pixelatedData = InputOf("reduceColors")
    /\ ReduceReturned => ref.reducedData \notin {0, ref.data, ref.pixelatedData}

\* Both stages have returned and each has changed bytes: its output differs
\* from its input.
C11_Witness ==
    /\ ReduceReturned
    /\ pixelatedData # data
    /\ reducedData # pixelatedData

\* The handler is past the test of options.colorCount.
PastGate == reducedData # NoData \/ fault = "quantize"

(* C12. Pipeline ordering and gating: pixelateImageData is the first stage *)
(* called; reduceColors is called only after it has returned, on the       *)
(* buffer it returned, and, once the handler is past the test, it has been *)
(* called if and only if colorCount < 256; with colorCount >= 256 the      *)
(* buffer the handler goes on with, and the one it encodes, is exactly the *)
(* buffer pixelateImageData returned.                                      *)
C12_OrderingAndGating ==
    /\ called # << >> => called[1].stage = "pixelateImageData"
    /\ \A i \in 2 .. Len(called) : called[i].stage # "pixelateImageData"
    /\ ReduceCalled =>
          /\ PixelateReturned
          /\ InputOf("reduceColors") = pixelatedData
    /\ PastGate => Ran("pixelateImageData")
    /\ PastGate => (ReduceCalled <=> options.colorCount < 256)
    /\ (PastGate /\ options.colorCount >= 256) =>
          /\ reducedData = pixelatedData
          /\ (pc = "done" /\ result.success) => result.imageData = pixelatedData

\* convertToPixelArt has ended well with colorCount = 256, for an image the
\* block averaging changed.
C12_Witness ==
    /\ entry = "convertToPixelArt"
    /\ pc = "done"
    /\ result.success
    /\ options.colorCount >= 256
    /\ pixelatedData # data

\* What the algorithm named by the tag returns for the buffer reduceColors
\* was called with.
ResultByTag ==
    LET input == InputOf("reduceColors")
    IN  CASE options.algorithm = "kmeans" -> reduceColorsKMeans(input, options.colorCount)
          [] options.algorithm = "median-cut" ->
                 reduceColorsMedianCut(input, options.colorCount)
          [] options.algorithm = "octree" -> reduceColorsOctree(input, options.colorCount)
          [] OTHER -> reduceColorsSimple(input, options.colorCount)

(* C13. Algorithm selection by tag: the buffer reduceColors returns is the *)
(* k-means result for the tag 'kmeans', the median-cut result for          *)
(* 'median-cut', the octree result for 'octree' and the simple result for  *)
(* any other tag. The file declares reduceColors a second time, and that   *)
(* declaration ignores the tag.                                            *)
C13_AlgorithmSelectionByTag ==
    (ReduceReturned /\ options.colorCount >= 1) => reducedData = ResultByTag.data

\* The sum of channel ch (1..3) over the pixels of a buffer.
ChannelSum(buf, ch) == SumSeq([p \in 1 .. (Len(buf) \div 4) |-> buf[4 * (p - 1) + ch]])

(* C15. reduceColorsMedianCut with colorCount = 1 on a buffer that is not  *)
(* empty keeps a single bucket, and every pixel of the buffer it returns   *)
(* has the same R, G and B: per channel, the mean over the pixels of its   *)
(* input (each distinct colour weighted by the number of its pixels),      *)
(* rounded to the nearest integer with a half rounded up.                  *)
C15_MedianCutSingleBucket ==
    (/\ Ran("reduceColorsMedianCut")
     /\ options.colorCount = 1
     /\ InputOf("reduceColorsMedianCut") # << >>) =>
        LET input == InputOf("reduceColorsMedianCut")
            n == Len(input) \div 4
        IN  /\ Len(MedianCutLoop(<< ColorEntries(input) >>, options.colorCount)) = 1
            /\ ReduceReturned
            /\ \A p \in 0 .. n - 1, ch \in 1 .. 3 :
                  LET v == reducedData[4 * p + ch]
                  IN  /\ 2 * n * v <= 2 * ChannelSum(input, ch) + n
                      /\ 2 * ChannelSum(input, ch) + n < 2 * n * (v + 1)

\* Median-cut has run with colorCount = 1 on a buffer whose colours differ
\* in the number of their pixels.
C15_Witness ==
    /\ Ran("reduceColorsMedianCut")
    /\ options.colorCount = 1
    /\ ReduceReturned
    /\ \E c1, c2 \in ColorSet(InputOf("reduceColorsMedianCut")) :
          ColorFrequency(InputOf("reduceColorsMedianCut"), c1)
              # ColorFrequency(InputOf("reduceColorsMedianCut"), c2)

(* C16. reduceColorsKMeans with colorCount >= the number of distinct       *)
(* colours of its input leaves every pixel as it is: after the seeding the *)
(* centroids are the distinct colours of the input, one each; none of the  *)
(* 10 iterations moves a centroid; and the buffer returned equals the      *)
(* input byte for byte.                                                    *)
C16_KMeansEnoughColors ==
    (/\ Ran("reduceColorsKMeans")
     /\ options.colorCount >= Cardinality(ColorSet(InputOf("reduceColorsKMeans")))) =>
        LET input == InputOf("reduceColorsKMeans")
        IN  /\ ReduceReturned
            /\ reducedData = input
            /\ Len(centroids) = 1 + KMeansIterations
            /\ Len(centroids[1]) = Cardinality(ColorSet(input))
            /\ { centroids[1][k] : k \in 1 .. Len(centroids[1]) } = ColorSet(input)
            /\ \A iter \in 1 .. KMeansIterations : centroids[iter + 1] = centroids[1]

\* k-means has run on a buffer of several colours with a colorCount above
\* the number of its colours.
C16_Witness ==
    /\ Ran("reduceColorsKMeans")
    /\ ReduceReturned
    /\ Cardinality(ColorSet(InputOf("reduceColorsKMeans"))) >= 2
    /\ options.colorCount > Cardinality(ColorSet(InputOf("reduceColorsKMeans")))

(* C19. K-means seeding: after the initialization there are exactly        *)
(* colorCount centroids, centroid i (from 0) being the (i mod D)-th        *)
(* distinct colour of the input in the order of first occurrence, D the    *)
(* number of distinct colours. The seeding loop stops at i = D, so with    *)
(* D < colorCount there are D centroids only.                              *)
C19_KMeansSeeding ==
    (/\ Ran("reduceColorsKMeans")
     /\ options.colorCount >= 1
     /\ InputOf("reduceColorsKMeans") # << >>
     /\ centroids # << >>) =>
        LET colorArray == UniqueColors(InputOf("reduceColorsKMeans"), 0, << >>)
            D == Len(colorArray)
        IN  /\ Len(centroids[1]) = options.colorCount
            /\ \A i \in 0 .. options.colorCount - 1 :
                  centroids[1][i + 1] = colorArray[(i % D) + 1]

\* The simple range quantization has run: reduceColorsSimple, or the second
\* declaration of reduceColors, which calls no other function.
RanSimple ==
    \/ Ran("reduceColorsSimple")
    \/ /\ ReduceCalled
       /\ \A i \in 1 .. Len(called) :
             called[i].stage \in {"pixelateImageData", "reduceColors"}

\* Every R, G and B byte of reducedData is the byte of the input floored
\* to a multiple of step.
FlooredToStep(input, step) ==
    \A p \in 0 .. (Len(input) \div 4) - 1, ch \in 1 .. 3 :
        reducedData[4 * p + ch] = (input[4 * p + ch] \div step) * step

(* C17. Simple range quantization: for every colorCount K >= 1 and every   *)
(* channel value v in 0..255 the R, G and B bytes returned are             *)
(* floor(v / step) * step with step = floor(256 / sqrt(K)), the largest    *)
(* integer whose square times K is at most 256 * 256.                      *)
C17_SimpleQuantization ==
    (RanSimple /\ options.colorCount >= 1) =>
        /\ ReduceReturned
        /\ \E step \in 1 .. 256 :
              /\ step * step * options.colorCount <= 256 * 256
              /\ (step + 1) * (step + 1) * options.colorCount > 256 * 256
              /\ FlooredToStep(InputOf("reduceColors"), step)

\* The example of the claim: colorCount = 4 and the value 200 give 128.
C17_Witness ==
    /\ Ran("reduceColorsSimple")
    /\ options.colorCount = 4
    /\ InputOf("reduceColorsSimple")[1] = 200
    /\ ReduceReturned
    /\ reducedData[1] = 128

(* C18. Octree approximation: for every colorCount K >= 1 and every        *)
(* channel value v in 0..255 the R, G and B bytes returned are             *)
(* floor(v / step) * step with bitsPerChannel = floor(log2(K) / 3), the b  *)
(* with 8^b <= K < 8^(b+1), and step = floor(256 / 2^bitsPerChannel).      *)
C18_OctreeApproximation ==
    (Ran("reduceColorsOctree") /\ options.colorCount >= 1) =>
        /\ ReduceReturned
        /\ \E bitsPerChannel \in 0 .. 8 :
              /\ 8 ^ bitsPerChannel <= options.colorCount
              /\ options.colorCount < 8 ^ (bitsPerChannel + 1)
              /\ FlooredToStep(InputOf("reduceColorsOctree"), 256 \div (2 ^ bitsPerChannel))

\* The octree approximation has run with two bits per channel (step 64) on
\* a value that is not a multiple of the step.
C18_Witness ==
    /\ Ran("reduceColorsOctree")
    /\ options.colorCount = 64
    /\ InputOf("reduceColorsOctree")[1] = 200
    /\ ReduceReturned
    /\ reducedData[1] = 192

\* The index of the centroid a colour is assigned to: the first of the
\* closest ones.
Nearest(color, cents) ==
    CHOOSE i \in 1 .. Len(cents) :
        /\ \A j \in 1 .. Len(cents) : Dist2(color, cents[i]) <= Dist2(color, cents[j])
        /\ \A j \in 1 .. i - 1 : Dist2(color, cents[j]) > Dist2(color, cents[i])

\* The distinct colours of the buffer assigned to centroid i of cents.
Assigned(buf, cents, i) == { color \in ColorSet(buf) : Nearest(color, cents) = i }

\* after is what one iteration makes of centroid i of before: the centroid
\* as it was when no colour is assigned to it, else the mean of the colours
\* assigned to it, rounded per channel with a half rounded up.
MovedAsClaimed(buf, before, after, i) ==
    LET cluster == Assigned(buf, before, i)
        n == Cardinality(cluster)
    IN  IF cluster = {} THEN after[i] = before[i]
        ELSE \A ch \in 1 .. 3 :
                LET sum == SumOver(cluster, [color \in cluster |-> color[ch]])
                IN  /\ 2 * n * after[i][ch] <= 2 * sum + n
                    /\ 2 * sum + n < 2 * n * (after[i][ch] + 1)

(* C20. K-means refinement runs exactly 10 iterations, converged or not,   *)
(* and each iteration leaves a centroid no distinct colour was assigned to *)
(* as it was and moves every other centroid to the rounded unweighted mean *)
(* of the distinct colours assigned to it.                                 *)
C20_KMeansRefinement ==
    (Ran("reduceColorsKMeans") /\ options.colorCount >= 1) =>
        /\ ReduceReturned
        /\ Len(centroids) = 1 + 10
        /\ \A iter \in 1 .. 10 :
              /\ Len(centroids[iter + 1]) = Len(centroids[iter])
              /\ \A i \in 1 .. Len(centroids[iter]) :
                    MovedAsClaimed(InputOf("reduceColorsKMeans"), centroids[iter],
                                   centroids[iter + 1], i)

\* k-means has run on a buffer where an iteration moved a centroid, a later
\* one left a centroid without any colour, and the last ones moved nothing.
C20_Witness ==
    /\ Ran("reduceColorsKMeans")
    /\ ReduceReturned
    /\ centroids[2] # centroids[1]
    /\ centroids[1 + 10] = centroids[10]
    /\ \E iter \in 1 .. 10 : \E i \in 1 .. Len(centroids[iter]) :
          Assigned(InputOf("reduceColorsKMeans"), centroids[iter], i) = {}

\* The colours of a sequence of colours.
ColorsOf(colors) == { colors[k] : k \in 1 .. Len(colors) }

\* The entry the colour is mapped to is the first of the entries of the
\* palette closest to it.
IsFirstNearest(color, palette, i) ==
    /\ i \in 1 .. Len(palette)
    /\ \A j \in 1 .. Len(palette) : Dist2(color, palette[i]) <= Dist2(color, palette[j])
    /\ \A j \in 1 .. i - 1 : Dist2(color, palette[i]) < Dist2(color, palette[j])

\* Every pixel of reducedData has the R, G and B of the first of the palette
\* entries closest to the pixel of the input.
MappedToFirstNearest(input, palette) ==
    \A p \in 0 .. (Len(input) \div 4) - 1 :
        \E i \in 1 .. Len(palette) :
            /\ IsFirstNearest(ColorAt(input, p), palette, i)
            /\ ColorAt(reducedData, p) = palette[i]

(* C21. Nearest-colour mapping with first-wins tie-break: in every         *)
(* iteration of k-means each distinct colour is put into the cluster of    *)
(* the centroid closest to it, and the final loops of k-means and of       *)
(* median-cut give each pixel the palette entry closest to it (Euclidean   *)
(* distance over R, G, B); of several closest entries the one of lowest    *)
(* index is taken.                                                         *)
C21_NearestFirstWins ==
    /\ (Ran("reduceColorsKMeans") /\ ReduceReturned) =>
          /\ Len(clusters) = Len(centroids) - 1
          /\ \A iter \in 1 .. Len(clusters) :
                \A color \in ColorSet(InputOf("reduceColorsKMeans")) :
                    \E i \in 1 .. Len(centroids[iter]) :
                        /\ IsFirstNearest(color, centroids[iter], i)
                        /\ \A c \in 1 .. Len(clusters[iter]) :
                              (color \in ColorsOf(clusters[iter][c])) <=> (c = i)
          /\ MappedToFirstNearest(InputOf("reduceColorsKMeans"),
                                  centroids[Len(centroids)])
    /\ (Ran("reduceColorsMedianCut") /\ ReduceReturned) =>
          MappedToFirstNearest(InputOf("reduceColorsMedianCut"), representativeColors)

\* Some colour of the input is as far from one entry of the palette as from
\* another, different, one, and no entry is closer.
TieIn(input, palette) ==
    \E color \in ColorSet(input) :
        \E i \in 1 .. Len(palette) : \E j \in (i + 1) .. Len(palette) :
            /\ palette[i] # palette[j]
            /\ Dist2(color, palette[i]) = Dist2(color, palette[j])
            /\ \A k \in 1 .. Len(palette) :
                  Dist2(color, palette[i]) <= Dist2(color, palette[k])

\* Median-cut has returned with a pixel as close to one representative
\* colour as to another.
C21_Witness ==
    /\ Ran("reduceColorsMedianCut")
    /\ ReduceReturned
    /\ TieIn(InputOf("reduceColorsMedianCut"), representativeColors)

\* k-means has returned, and in one of its iterations a colour was as close
\* to one centroid as to another.
TieInKMeansAssignment ==
    /\ Ran("reduceColorsKMeans")
    /\ ReduceReturned
    /\ \E iter \in 1 .. Len(clusters) :
          TieIn(InputOf("reduceColorsKMeans"), centroids[iter])

\* k-means has returned with a pixel as close to one of the final centroids
\* as to another.
TieInKMeansMapping ==
    /\ Ran("reduceColorsKMeans")
    /\ ReduceReturned
    /\ TieIn(InputOf("reduceColorsKMeans"), centroids[Len(centroids)])

\* The colours of a bucket.
BucketColors(bucket) == { bucket[k].color : k \in 1 .. Len(bucket) }

\* The buckets are not empty, no colour is in two of them or twice in one,
\* and together they hold the colours given.
IsPartition(bucketList, colors) ==
    /\ \A b \in 1 .. Len(bucketList) :
          /\ Len(bucketList[b]) >= 1
          /\ Cardinality(BucketColors(bucketList[b])) = Len(bucketList[b])
    /\ \A b, c \in 1 .. Len(bucketList) :
          b # c => BucketColors(bucketList[b]) \cap BucketColors(bucketList[c]) = {}
    /\ UNION { BucketColors(bucketList[b]) : b \in 1 .. Len(bucketList) } = colors

\* The loop of median-cut goes on from these buckets.
GoesOn(bucketList, colorCount) ==
    /\ Len(bucketList) < colorCount
    /\ \E b \in 1 .. Len(bucketList) : Len(bucketList[b]) > 1

(* C22. Median-cut splitting stops exactly when the number of buckets      *)
(* reaches colorCount or no bucket has more than one member: for a buffer  *)
(* that is not empty, with D distinct colours, and colorCount K >= 1, the  *)
(* loop ends with min(K, D) buckets, each step adds one bucket, and at     *)
(* every step the buckets are non-empty and partition the D colours.       *)
C22_MedianCutStops ==
    (/\ Ran("reduceColorsMedianCut")
     /\ options.colorCount >= 1
     /\ InputOf("reduceColorsMedianCut") # << >>) =>
        LET colors == ColorSet(InputOf("reduceColorsMedianCut"))
            K == options.colorCount
            D == Cardinality(colors)
        IN  /\ ReduceReturned
            /\ Len(buckets) >= 1
            /\ Len(buckets[Len(buckets)]) = IF K < D THEN K ELSE D
            /\ ~ GoesOn(buckets[Len(buckets)], K)
            /\ \A t \in 1 .. Len(buckets) : IsPartition(buckets[t], colors)
            /\ \A t \in 1 .. Len(buckets) - 1 :
                  /\ GoesOn(buckets[t], K)
                  /\ Len(buckets[t + 1]) = Len(buckets[t]) + 1

\* Median-cut has run with fewer buckets allowed than there are colours,
\* and has split twice.
C22_Witness ==
    /\ Ran("reduceColorsMedianCut")
    /\ ReduceReturned
    /\ options.colorCount = 3
    /\ Cardinality(ColorSet(InputOf("reduceColorsMedianCut"))) = 4
    /\ Len(buckets) = 3

\* The largest of the ranges (max - min) of the R, G and B of a bucket.
RangeOn(bucket, ch) ==
    LET values == { bucket[k].color[ch] : k \in 1 .. Len(bucket) }
    IN  CHOOSE d \in 0 .. 255 :
            /\ \E hi, lo \in values : d = hi - lo
            /\ \A hi, lo \in values : hi - lo <= d

LargestRange(bucket) ==
    CHOOSE d \in 0 .. 255 :
        /\ \E ch \in 1 .. 3 : d = RangeOn(bucket, ch)
        /\ \A ch \in 1 .. 3 : RangeOn(bucket, ch) <= d

\* Bucket b is the one the claim splits: the first, among the buckets of
\* more than one member, of those of the greatest largest range.
IsSplitBucket(bucketList, b) ==
    /\ Len(bucketList[b]) > 1
    /\ \A c \in 1 .. Len(bucketList) :
          Len(bucketList[c]) > 1 =>
              /\ LargestRange(bucketList[c]) <= LargestRange(bucketList[b])
              /\ c < b => LargestRange(bucketList[c]) < LargestRange(bucketList[b])

\* Channel ch is the first of the channels of the largest range.
IsSplitChannel(bucket, ch) ==
    /\ RangeOn(bucket, ch) = LargestRange(bucket)
    /\ \A other \in 1 .. ch - 1 : RangeOn(bucket, other) < LargestRange(bucket)

\* lower and upper are the bucket sorted by channel ch and cut after its
\* first floor(n / 2) members.
IsMedianSplit(bucket, ch, lower, upper) ==
    LET n == Len(bucket)
        sorted == lower \o upper
    IN  /\ Len(lower) = n \div 2
        /\ Len(upper) = n - (n \div 2)
        /\ { sorted[k] : k \in 1 .. Len(sorted) } = { bucket[k] : k \in 1 .. n }
        /\ \A k \in 1 .. Len(sorted) - 1 : sorted[k].color[ch] <= sorted[k + 1].color[ch]

(* C23. Median-cut split rule: each split takes, among the buckets of more *)
(* than one member, the one whose largest per-channel range is greatest    *)
(* (the first such bucket, and the first such channel), sorts it by that   *)
(* channel and replaces it by a bucket of its first floor(n / 2) members,  *)
(* the remaining n - floor(n / 2) members going into a new, last, bucket;  *)
(* the other buckets stay as they are.                                     *)
C23_MedianCutSplitRule ==
    (Ran("reduceColorsMedianCut") /\ ReduceReturned) =>
        \A t \in 1 .. Len(buckets) - 1 :
            \E b \in 1 .. Len(buckets[t]) : \E ch \in 1 .. 3 :
                /\ IsSplitBucket(buckets[t], b)
                /\ IsSplitChannel(buckets[t][b], ch)
                /\ Len(buckets[t + 1]) = Len(buckets[t]) + 1
                /\ IsMedianSplit(buckets[t][b], ch, buckets[t + 1][b],
                                 buckets[t + 1][Len(buckets[t + 1])])
                /\ \A c \in 1 .. Len(buckets[t]) :
                      c # b => buckets[t + 1][c] = buckets[t][c]

\* Median-cut has split a bucket of two channels of the same range, and
\* then the first of two buckets of the same range.
C23_Witness ==
    /\ Ran("reduceColorsMedianCut")
    /\ ReduceReturned
    /\ \E t \in 1 .. Len(buckets) - 1 :
          \E b \in 1 .. Len(buckets[t]) :
             /\ IsSplitBucket(buckets[t], b)
             /\ RangeOn(buckets[t][b], 1) = RangeOn(buckets[t][b], 2)
             /\ RangeOn(buckets[t][b], 1) > 0
    /\ \E t \in 1 .. Len(buckets) - 1 :
          \E b \in 1 .. Len(buckets[t]) : \E c \in (b + 1) .. Len(buckets[t]) :
             /\ IsSplitBucket(buckets[t], b)
             /\ Len(buckets[t][c]) > 1
             /\ LargestRange(buckets[t][c]) = LargestRange(buckets[t][b])

\* Median-cut has split a bucket of an odd number of members.
OddBucketSplit ==
    /\ Ran("reduceColorsMedianCut")
    /\ ReduceReturned
    /\ \E t \in 1 .. Len(buckets) - 1 :
          \E b \in 1 .. Len(buckets[t]) :
             IsSplitBucket(buckets[t], b) /\ Len(buckets[t][b]) = 3

\* The pixelIndex values of the passes made so far, one after the other.
RECURSIVE Flatten(_)
Flatten(blocks) == IF blocks = << >> THEN << >> ELSE Head(blocks) \o Flatten(Tail(blocks))

\* For blocks of 1 pixel or more: every pixelIndex of a pass is that of a
\* pixel of the image, so that the four bytes read and written at it are in
\* the buffer; no pixel is in two passes or twice in one; and once
\* pixelateImageData has returned every pixel has been in one.
BlocksPartition ==
    options.pixelSize >= 1 =>
        LET indexes == Flatten(visited)
        IN  /\ \A k \in 1 .. Len(indexes) :
                  /\ indexes[k] % 4 = 0
                  /\ indexes[k] >= 0
                  /\ indexes[k] + 3 <= width * height * 4 - 1
            /\ \A k, l \in 1 .. Len(indexes) : k # l => indexes[k] # indexes[l]
            /\ PixelateReturned =>
                  \A pixel \in 0 .. width * height - 1 :
                      \E k \in 1 .. Len(indexes) : indexes[k] = 4 * pixel

(* C26. Block partition and termination: for every width >= 0, height >= 0 *)
(* and pixelSize >= 1 the loops of pixelateImageData come to their end,    *)
(* the blocks they visit do not overlap and together cover every pixel, so *)
(* that every pixel is written exactly once, and no index outside          *)
(* 0 .. width * height * 4 - 1 is read or written.                         *)
C26_BlockPartition ==
    /\ [] BlocksPartition
    /\ (pc = "pixelate" /\ options.pixelSize >= 1) ~> (pc # "pixelate" /\ PixelateReturned)

\* pixelateImageData has returned for an image of three columns and blocks
\* of two: the second block of a row is clipped.
C26_Witness ==
    /\ PixelateReturned
    /\ options.pixelSize = 2
    /\ width = 3
    /\ height >= 1
    /\ Len(visited) = 2
    /\ Len(visited[2]) = 1

\* pixelateImageData has been applied to the buffer it returned.
AppliedAgain ==
    /\ Len(called) = 2
    /\ called[2].stage = "pixelateImageData"

(* C27. Block averaging is idempotent for a fixed block size: for every    *)
(* buffer and every pixelSize >= 1, pixelateImageData applied to the       *)
(* buffer it returned, with the same width, height and pixelSize, returns  *)
(* a buffer with the very bytes of that buffer.                            *)
C27_Idempotent ==
    (AppliedAgain /\ PixelateReturned /\ options.pixelSize >= 1) =>
        pixelatedData = called[2].input

\* The second application has returned, for an image the first one
\* changed.
C27_Witness ==
    /\ AppliedAgain
    /\ PixelateReturned
    /\ options.pixelSize = 2
    /\ called[2].input # called[1].input
    /\ pixelatedData = called[2].input

(* C28. The octree approximation with colorCount in 1..7 uses no bit per   *)
(* channel and the step 256: every pixel it returns has R = G = B = 0,     *)
(* whatever the colours of the input; a byte of R, G or B that is not 0    *)
(* comes out for colorCount >= 8 only.                                     *)
C28_OctreeBelowEight ==
    Ran("reduceColorsOctree") =>
        /\ (options.colorCount \in 1 .. 7) =>
              /\ ReduceReturned
              /\ \A p \in 0 .. (Len(reducedData) \div 4) - 1 :
                    ColorAt(reducedData, p) = << 0, 0, 0 >>
        /\ (/\ ReduceReturned
            /\ options.colorCount >= 1
            /\ \E p \in 0 .. (Len(reducedData) \div 4) - 1 :
                  ColorAt(reducedData, p) # << 0, 0, 0 >>) => options.colorCount >= 8

\* The octree approximation has run with colorCount = 7 on a pixel of
\* bytes above 127 and below.
C28_Witness ==
    /\ Ran("reduceColorsOctree")
    /\ options.colorCount = 7
    /\ InputOf("reduceColorsOctree")[1] = 200
    /\ ReduceReturned
    /\ ColorAt(reducedData, 0) = << 0, 0, 0 >>

\* The octree approximation has returned a byte that is not 0, with
\* colorCount = 8.
OctreeNonZeroAtEight ==
    /\ Ran("reduceColorsOctree")
    /\ options.colorCount = 8
    /\ ReduceReturned
    /\ reducedData[1] = 128

\* The places of an event in the log of the call.
PlacesOf(event) == { k \in 1 .. Len(events) : events[k] = event }

ResolvedAfterLoadError == pc = "done" /\ fault = "load" /\ Len(events) = 3
ResolvedAfterException == pc = "done" /\ fault = "quantize" /\ Len(events) = 3

\* hash * 31 + char, wrapped to 32 bits (in halves of 16 bits).
Times31Plus(word, char) ==
    LET low == word.lo * 31 + char
    IN  [hi |-> (word.hi * 31 + (low \div 65536)) % 65536, lo |-> low % 65536]

\* The rolling hash of the first n characters, from 0.
RECURSIVE RollingHash(_, _)
RollingHash(str, n) ==
    IF n = 0 THEN [hi |-> 0, lo |-> 0]
    ELSE Times31Plus(RollingHash(str, n - 1), str[n])

\* The absolute value of the 32 bits read as a signed number: the bits
\* themselves, or 2^32 less them (all bits flipped, plus 1).
AbsoluteValue(word) ==
    IF word.hi < 32768 THEN word
    ELSE LET low == (65535 - word.lo) + 1
         IN  [hi |-> ((65535 - word.hi) + (low \div 65536)) % 65536, lo |-> low % 65536]

(* C24. Seed hash: for every prompt, hashString returns the absolute value *)
(* of the 32-bit signed wrap-around result of hash = hash * 31 + charCode  *)
(* over the characters, from 0; it is an integer in 0 .. 2^31 and depends  *)
(* on the string alone (every generator made for the prompt has it as its  *)
(* seed).                                                                  *)
C24_SeedHash ==
    \A g \in 1 .. Len(generators) :
        /\ generators[g].seed =
               AbsoluteValue(RollingHash(request.prompt, Len(request.prompt)))
        /\ generators[g].seed.lo \in 0 .. 65535
        /\ \/ generators[g].seed.hi \in 0 .. 32767
           \/ generators[g].seed.hi = 32768 /\ generators[g].seed.lo = 0

\* A generator has been made for a prompt whose hash wrapped around to a
\* negative number.
C24_Witness ==
    /\ Len(generators) >= 1
    /\ Len(request.prompt) = 5
    /\ RollingHash(request.prompt, 5).hi >= 32768
    /\ generators[1].seed # RollingHash(request.prompt, 5)

\* (prev * 9301 + 49297) mod 233280 for prev in 0 .. 233279, with 9301 as
\* 93 * 100 + 1.
LcgStep(prev) == ((((prev * 93) % 233280) * 100) + prev + 49297) % 233280

\* The seed modulo 233280, with 2^16 as 64 * 1024.
SeedModulo(word) == ((((word.hi * 64) % 233280) * 1024) + word.lo) % 233280

IsPrefix(a, b) == Len(a) <= Len(b) /\ SubSeq(b, 1, Len(a)) = a

(* C25. Seeded generator: each generator made by seededRandom has its own  *)
(* state; every call sets state = (state * 9301 + 49297) mod 233280 and    *)
(* returns state / 233280, so that for every seed hashString gives every   *)
(* value returned is in [0, 1) and the palette index floor(r * length) is  *)
(* in 0 .. length - 1; two generators made from the same seed return the   *)
(* same sequence.                                                          *)
C25_SeededGenerator ==
    /\ \A g \in 1 .. Len(generators) :
          LET made == generators[g]
              length == IF request.style = "monochrome" THEN 6 ELSE 8
          IN  /\ \A k \in 1 .. Len(made.returned) :
                    /\ made.returned[k] \in 0 .. 233279
                    /\ made.returned[k] =
                          LcgStep(IF k = 1 THEN SeedModulo(made.seed)
                                  ELSE made.returned[k - 1])
              /\ made.current =
                    IF made.returned = << >> THEN made.seed
                    ELSE [hi |-> made.returned[Len(made.returned)] \div 65536,
                          lo |-> made.returned[Len(made.returned)] % 65536]
              /\ \A k \in 1 .. Len(made.picks) :
                    /\ made.picks[k].colorIndex \in 0 .. length - 1
                    /\ made.picks[k].colorIndex * 233280 <= made.picks[k].state * length
                    /\ made.picks[k].state * length < (made.picks[k].colorIndex + 1) * 233280
    /\ \A g, h \in 1 .. Len(generators) :
          generators[g].seed = generators[h].seed =>
              \/ IsPrefix(generators[g].returned, generators[h].returned)
              \/ IsPrefix(generators[h].returned, generators[g].returned)

\* Two generators have been made from the same seed, a large one, and each
\* has returned several values and drawn a palette index.
C25_Witness ==
    /\ Len(generators) = 2
    /\ generators[1].seed = generators[2].seed
    /\ generators[1].seed.hi > 3
    /\ Len(generators[1].returned) >= 3
    /\ generators[2].returned = generators[1].returned
    /\ generators[2].picks # << >>

\* The call has returned the image of the remote model.
ReturnedRemoteImage ==
    /\ gpc = "done"
    /\ response.success
    /\ fallbacks = << >>

(* C30. generatePixelArtImage returns success = false only after a canvas  *)
(* fallback has itself failed: whenever the API key is missing or shorter  *)
(* than 20 characters, the remote call throws or the response holds no     *)
(* image, generateFallbackPixelArt is attempted, and when it succeeds the  *)
(* function returns its success instead of an error; the function always   *)
(* returns a response, it never throws.                                    *)
C30_FallbackBeforeFailure ==
    gpc = "done" =>
        /\ DOMAIN response \in { {"success", "imageData"}, {"success", "error"} }
        /\ ~ response.success =>
              /\ fallbacks # << >>
              /\ \A f \in 1 .. Len(fallbacks) : ~ fallbacks[f].success
        /\ (request.apiKeyLength < 20 \/ caught # "" \/ site # "") => fallbacks # << >>
        /\ (fallbacks # << >> /\ fallbacks[Len(fallbacks)].success) =>
              response = fallbacks[Len(fallbacks)]
        /\ (request.apiKeyLength >= 20 /\ fallbacks = << >>) =>
              (response.success /\ caught = "" /\ site = "")

\* No image came and the fallback failed twice: the call has returned the
\* error.
C30_Witness ==
    /\ gpc = "done"
    /\ ~ response.success
    /\ request.apiKeyLength >= 20
    /\ Len(fallbacks) = 2
    /\ generators # << >>

\* The key was too short and the fallback succeeded: the call has returned
\* the drawing.
FallbackSuccessReturned ==
    /\ gpc = "done"
    /\ request.apiKeyLength < 20
    /\ response.success
    /\ response = fallbacks[1]

====
